---- MODULE Spec2Model ----
(***************************************************************************)
(* Model of the recommendation / discovery engine of ai-stock              *)
(* (backend/app/engine/recommendation_engine.py and guardrails.py).        *)
(*                                                                         *)
(* Scheduling.  The engine runs as cooperative asyncio tasks on one event  *)
(* loop.  A task gives up control only at an await that reaches the loop:  *)
(* a provider call (to_thread / wait_for), the news fetch, the reasoning   *)
(* call, gather.  The status lock (recommendation_engine.py:93) is never   *)
(* held across such an await, so it is never contended and acquiring it    *)
(* never suspends: a status update, a trigger and a status read are each   *)
(* the atomic step of the task that makes them.  One action of this module *)
(* is the code a task runs between two suspension points.                  *)
(***************************************************************************)
EXTENDS Integers, Sequences, FiniteSets, TLC

VARIABLES
    now,                         \* the wall clock read by _now_iso
    watchlist,                   \* repository: client -> watchlist symbols
    preferences,                 \* repository: client -> risk profile (or none)
    status_by_client,            \* engine._status_by_client
    manual_tasks,                \* engine._manual_tasks
    discover_status_by_client,   \* engine._discover_status_by_client
    discover_tasks,              \* engine._discover_tasks
    tasks,                       \* the asyncio tasks the engine created
    scheduler,                   \* the scheduler's _scan_job
    escaped,                     \* exceptions that left a task unhandled
    last_call,                   \* the call made by the last step (a trigger or the
                                 \* scheduler's job) and how it ended; else NoCall
    stored,                      \* the status objects the last step stored, in order
    recommendations,             \* repository: the recommendations table, by id
    calls,                       \* the _process_candidate calls in flight
    connections,                 \* ws_manager._connections: clients with a socket
    events                       \* the events sent over the sockets, in order

\* the variables of the candidate pipeline
pipeline_vars == <<recommendations, calls, connections, events>>

vars == <<now, watchlist, preferences, status_by_client, manual_tasks,
          discover_status_by_client, discover_tasks, tasks, scheduler,
          escaped, last_call, stored, pipeline_vars>>

----------------------------------------------------------------------------
(* Bounds of the model *)

ClientSeq == <<"c1", "c2">>     \* the client ids, in sorted order
Clients == {ClientSeq[i] : i \in DOMAIN ClientSeq}
MaxTime == 2          \* the clock ticks at most MaxTime times
TickMinutes == 120    \* minutes the clock advances in one tick
MaxTasks == 2         \* task objects alive per client and job type
MaxUniverse == 2      \* symbols the universe provider returns at most
MaxCalls == 1         \* _process_candidate calls in flight at once
MaxRecs == 2          \* rows of the recommendations table

\* A task object: the i-th task alive of a job type and a client
TaskIds == {"scan", "discover"} \X Clients \X (1..MaxTasks)

Sym(i) == "s" \o ToString(i)
Universe(n) == [i \in 1..n |-> Sym(i)]

----------------------------------------------------------------------------
(* Python values *)

None == -1            \* None in an int / timestamp field
NoError == "<None>"   \* None in the error field
NoTask == <<"none", "", 0>>     \* no entry in a task map

Max(a, b) == IF a >= b THEN a ELSE b
Min(a, b) == IF a <= b THEN a ELSE b

Put(m, k, v) == [x \in (DOMAIN m) \cup {k} |-> IF x = k THEN v ELSE m[x]]

\* str(exc) of the AttributeError raised by assigning a field that a
\* slots dataclass does not declare
AttrErrorItems == "'ScanStatus' object has no attribute 'items'"
DbError == "database error"

----------------------------------------------------------------------------
(* ScanStatus and its updates *)

DefaultScanStatus ==
    [state |-> "idle", step |-> "idle", progress |-> 0, message |-> "",
     total_watchlist |-> 0, total_candidates |-> 0,
     processed_candidates |-> 0, created_recommendations |-> 0,
     started_at |-> None, updated_at |-> None, finished_at |-> None,
     error |-> NoError]

\* ScanStatus is a slots dataclass; these are all the fields it declares
ScanStatusFields == DOMAIN DefaultScanStatus

OrDefault(m, c, default) == IF c \in DOMAIN m THEN m[c] ELSE default

\* One entry of the trace of stores: the object a status update left in the
\* map of a job type ("scan" | "discover") for a client
Store(job, c, status) == [job |-> job, client |-> c, status |-> status]

\* The entries of a trace for one job type and client, and their states
StoresOf(trace, job, c) ==
    SelectSeq(trace, LAMBDA e : e.job = job /\ e.client = c)
StatesOf(trace, job, c) ==
    [i \in 1..Len(StoresOf(trace, job, c)) |-> StoresOf(trace, job, c)[i].status.state]

ClampProgress(progress) == Max(0, Min(99, progress))

\* a running update that leaves the error of the earlier job in place
RunningFieldsKeepError(status, t, step, progress, message) ==
    [status EXCEPT !.started_at = IF @ = None THEN t ELSE @,
                   !.state = "running",
                   !.step = step,
                   !.progress = Max(0, Min(99, progress)),
                   !.message = message,
                   !.updated_at = t,
                   !.finished_at = None]

\* a running update that leaves finished_at of the earlier job in place
RunningFieldsKeepFinished(status, t, step, progress, message) ==
    [status EXCEPT !.started_at = IF @ = None THEN t ELSE @,
                   !.state = "running",
                   !.step = step,
                   !.progress = Max(0, Min(99, progress)),
                   !.message = message,
                   !.updated_at = t,
                   !.error = NoError]

\* The assignments of a running update up to and including error = None
RunningFields(status, t, step, progress, message) ==
    [status EXCEPT !.started_at = IF @ = None THEN t ELSE @,
                   !.state = "running",
                   !.step = step,
                   !.progress = ClampProgress(progress),
                   !.message = message,
                   !.updated_at = t,
                   !.finished_at = None,
                   !.error = NoError]

Opt(new, old) == IF new = None THEN old ELSE new

\* _set_running_status for a ScanStatus that declares the items field: every
\* assignment is made and the object is stored
SetRunningStatusWithItems(m, c, t, step, progress, message, tw, tc, pc, cr) ==
    LET s2 == [RunningFields(OrDefault(m, c, DefaultScanStatus), t, step,
                             progress, message)
                  EXCEPT !.total_watchlist = Opt(tw, @),
                         !.total_candidates = Opt(tc, @),
                         !.processed_candidates = Opt(pc, @),
                         !.created_recommendations = Opt(cr, @)]
    IN  [map |-> Put(m, c, s2), exc |-> NoError,
         stored |-> <<Store("scan", c, s2)>>]

\* _set_running_status.  The status object is mutated in place, so when it
\* already is in the map the assignments made before an exception are kept;
\* a fresh object is stored only by the last statement.  The assignment
\* status.items = [] raises AttributeError when the class has no such field.
\* Result: the new map, str(exc) of what was raised (NoError if nothing) and
\* the objects it left in the map (stored).
SetRunningStatus(m, c, t, step, progress, message, tw, tc, pc, cr) ==
    LET status == OrDefault(m, c, DefaultScanStatus)
        s1 == RunningFields(status, t, step, progress, message)
        s2 == [s1 EXCEPT !.total_watchlist = Opt(tw, @),
                         !.total_candidates = Opt(tc, @),
                         !.processed_candidates = Opt(pc, @),
                         !.created_recommendations = Opt(cr, @)]
    IN  IF "items" \notin ScanStatusFields
        THEN [map |-> IF c \in DOMAIN m THEN Put(m, c, s1) ELSE m,
              exc |-> AttrErrorItems,
              stored |-> IF c \in DOMAIN m THEN <<Store("scan", c, s1)>> ELSE <<>>]
        ELSE [map |-> Put(m, c, s2), exc |-> NoError,
              stored |-> <<Store("scan", c, s2)>>]

SetSucceededStatus(m, c, t, message) ==
    Put(m, c, [OrDefault(m, c, DefaultScanStatus) EXCEPT
                  !.started_at = IF @ = None THEN t ELSE @,
                  !.state = "succeeded",
                  !.step = "done",
                  !.progress = 100,
                  !.message = message,
                  !.updated_at = t,
                  !.finished_at = t,
                  !.error = NoError])

SetFailedStatus(m, c, t, message, error) ==
    Put(m, c, [OrDefault(m, c, DefaultScanStatus) EXCEPT
                  !.started_at = IF @ = None THEN t ELSE @,
                  !.state = "failed",
                  !.step = "failed",
                  !.progress = 100,
                  !.message = message,
                  !.updated_at = t,
                  !.finished_at = t,
                  !.error = error])

----------------------------------------------------------------------------
(* The scan pipeline *)

\* The progress _collect_candidates writes before the symbol idx of total,
\* and _run_candidate after `processed` of total candidates.  Python
\* computes int((idx / total) * 45) in floats; for total < 45 this is the
\* integer quotient
ScanCollectProgress(idx, total) == 10 + ((idx * 45) \div Max(1, total))
ScanReasonProgress(processed, total) == 60 + ((processed * 35) \div Max(1, total))

\* scan_one_client from its entry to its first suspension point (the news
\* fetch of the first watchlist symbol), to its return or to its raise.
\* pc: "raised" (the except clause ran and re-raised), "returned",
\* or "collecting" (suspended in _collect_candidates).
ScanOneClient(m, c, t, wl) ==
    LET r1 == SetRunningStatus(m, c, t, "loading_watchlist", 5,
                               "Loading watchlist.", None, None, 0, 0)
        r2 == SetRunningStatus(r1.map, c, t, "collecting_candidates", 10,
                  "Collecting market/news data (0/" \o ToString(Len(wl)) \o ").",
                  Len(wl), None, 0, 0)
        r3 == SetRunningStatus(r2.map, c, t, "collecting_candidates",
                  ScanCollectProgress(1, Len(wl)),
                  "Collecting market/news data (1/" \o ToString(Len(wl))
                      \o "): " \o wl[1] \o ".",
                  Len(wl), None, None, None)
        Failed(r, before) ==
            LET m2 == SetFailedStatus(r.map, c, t, "AI selection failed.", r.exc)
            IN  [map |-> m2, exc |-> r.exc, pc |-> "raised",
                 stored |-> before \o r.stored \o <<Store("scan", c, m2[c])>>]
    IN  IF r1.exc # NoError THEN Failed(r1, <<>>)
        ELSE IF wl = <<>>
        THEN LET m2 == SetSucceededStatus(r1.map, c, t, "Watchlist is empty.")
             IN  [map |-> m2, exc |-> NoError, pc |-> "returned",
                  stored |-> r1.stored \o <<Store("scan", c, m2[c])>>]
        ELSE IF r2.exc # NoError THEN Failed(r2, r1.stored)
        ELSE IF r3.exc # NoError THEN Failed(r3, r1.stored \o r2.stored)
        ELSE [map |-> r3.map, exc |-> NoError, pc |-> "collecting",
              stored |-> r1.stored \o r2.stored \o r3.stored]

\* _run_manual_scan without its except clause: what scan_one_client raises
\* leaves the task
RunManualScanNoExcept(m, c, t, wl) ==
    LET r == ScanOneClient(m, c, t, wl)
    IN  [map |-> r.map, pc |-> IF r.pc = "collecting" THEN r.pc ELSE "done",
         failure |-> r.exc, escaped |-> r.exc, stored |-> r.stored]

\* The try / except of _run_manual_scan around scan_one_client: what the
\* status map becomes, where the task stands, the exception the scan raised
\* (failure) and the exception that escapes the task (NoError: none).
RunManualScanBody(m, c, t, wl) ==
    LET r == ScanOneClient(m, c, t, wl)
        m2 == SetFailedStatus(r.map, c, t, "AI selection failed.", r.exc)
    IN  IF r.pc = "raised"
        THEN [map |-> m2, pc |-> "done", failure |-> r.exc, escaped |-> NoError,
              stored |-> r.stored \o <<Store("scan", c, m2[c])>>]
        ELSE [map |-> r.map, pc |-> IF r.pc = "returned" THEN "done" ELSE r.pc,
              failure |-> NoError, escaped |-> NoError, stored |-> r.stored]

\* repository.get_all_client_ids: the sorted ids that have a preferences row
\* or a watchlist row
GetAllClientIds(wl, pref) ==
    SelectSeq(ClientSeq, LAMBDA c : pref[c] # "none" \/ wl[c] # <<>>)

\* scan_all_clients: the scans of the client ids in order, up to the first
\* that raises (the exception leaves the loop) or suspends.
RECURSIVE ScanAllClients(_, _, _, _)
\* the loop after the scan of its first id ended as r
ScanRest(r, ids, t, wl) ==
    IF r.pc = "returned"
    THEN [ScanAllClients(r.map, Tail(ids), t, wl) EXCEPT !.stored = r.stored \o @]
    ELSE [map |-> r.map, exc |-> r.exc, pc |-> r.pc, rest |-> ids,
          stored |-> r.stored]
ScanAllClients(m, ids, t, wl) ==
    IF ids = <<>>
    THEN [map |-> m, exc |-> NoError, pc |-> "returned", rest |-> <<>>,
          stored |-> <<>>]
    ELSE ScanRest(ScanOneClient(m, Head(ids), t, wl[Head(ids)]), ids, t, wl)

----------------------------------------------------------------------------
(* DiscoverStatus and its updates *)

DefaultDiscoverStatus ==
    [state |-> "idle", step |-> "idle", progress |-> 0, message |-> "",
     limit |-> 0, universe_limit |-> 0, scanned_candidates |-> 0,
     total_candidates |-> 0, started_at |-> None, updated_at |-> None,
     finished_at |-> None, error |-> NoError, items |-> <<>>]

\* a running update that leaves the progress of the earlier update in place
SetDiscoveryRunningStatusKeepsProgress(m, c, t, step, progress, message, limit, ul, scanned, total) ==
    Put(m, c, [OrDefault(m, c, DefaultDiscoverStatus) EXCEPT
                  !.started_at = IF @ = None THEN t ELSE @,
                  !.state = "running",
                  !.step = step,
                  !.message = message,
                  !.updated_at = t,
                  !.finished_at = None,
                  !.error = NoError,
                  !.limit = Opt(limit, @),
                  !.universe_limit = Opt(ul, @),
                  !.scanned_candidates = Opt(scanned, @),
                  !.total_candidates = Opt(total, @)])

SetDiscoveryRunningStatus(m, c, t, step, progress, message, limit, ul, scanned, total) ==
    Put(m, c, [OrDefault(m, c, DefaultDiscoverStatus) EXCEPT
                  !.started_at = IF @ = None THEN t ELSE @,
                  !.state = "running",
                  !.step = step,
                  !.progress = ClampProgress(progress),
                  !.message = message,
                  !.updated_at = t,
                  !.finished_at = None,
                  !.error = NoError,
                  !.limit = Opt(limit, @),
                  !.universe_limit = Opt(ul, @),
                  !.scanned_candidates = Opt(scanned, @),
                  !.total_candidates = Opt(total, @)])

SetDiscoverySucceededStatus(m, c, t, message, items, limit, ul) ==
    Put(m, c, [OrDefault(m, c, DefaultDiscoverStatus) EXCEPT
                  !.started_at = IF @ = None THEN t ELSE @,
                  !.state = "succeeded",
                  !.step = "done",
                  !.progress = 100,
                  !.message = message,
                  !.updated_at = t,
                  !.finished_at = t,
                  !.error = NoError,
                  !.items = items,
                  !.limit = limit,
                  !.universe_limit = ul,
                  !.scanned_candidates =
                      Max(@, OrDefault(m, c, DefaultDiscoverStatus).total_candidates)])

SetDiscoveryFailedStatus(m, c, t, message, error, limit, ul) ==
    Put(m, c, [OrDefault(m, c, DefaultDiscoverStatus) EXCEPT
                  !.started_at = IF @ = None THEN t ELSE @,
                  !.state = "failed",
                  !.step = "failed",
                  !.progress = 100,
                  !.message = message,
                  !.updated_at = t,
                  !.finished_at = t,
                  !.error = error,
                  !.limit = limit,
                  !.universe_limit = ul,
                  !.items = <<>>])

----------------------------------------------------------------------------
(* Settings (core/config.py) *)

cooldown_minutes == 240
evidence_min_items == 2
max_position_aggressive == 50
max_position_neutral == 35
max_position_conservative == 20
ReversalConfidence == 75          \* 0.75, confidence in hundredths
MarketFeatureCount == 7           \* length of extract_market_features()["features"]

----------------------------------------------------------------------------
(* Guardrails (engine/guardrails.py).  An LlmOutput is a record            *)
(* [action, target_position_pct, confidence, market_features,              *)
(* news_citations]: the position in percent, the confidence in hundredths, *)
(* and of the evidence the length of each list (None: key absent).         *)

\* a cap that gives an unknown profile the aggressive ceiling
MaxPositionDefaultAggressive(risk_profile) ==
    IF risk_profile = "neutral" THEN max_position_neutral
    ELSE IF risk_profile = "conservative" THEN max_position_conservative
    ELSE max_position_aggressive

MaxPosition(risk_profile) ==
    IF risk_profile = "aggressive" THEN max_position_aggressive
    ELSE IF risk_profile = "conservative" THEN max_position_conservative
    ELSE max_position_neutral

\* guardrails that leave the position as the reasoning step gave it
ApplyGuardrailsNoCap(output, risk_profile) == output

ApplyGuardrails(output, risk_profile) ==
    [output EXCEPT !.target_position_pct =
                       Max(0, Min(@, MaxPosition(risk_profile)))]

EvidenceLen(n) == IF n = None THEN 0 ELSE n

\* an evidence gate that lets every recommendation pass
HasEnoughEvidenceAlways(output) == TRUE

HasEnoughEvidence(output) ==
    EvidenceLen(output.market_features) + EvidenceLen(output.news_citations)
        >= evidence_min_items

NoRec == [id |-> 0, client |-> "", symbol |-> "", action |-> "",
          target_position_pct |-> 0, confidence |-> 0, created_at |-> None]

\* a cooldown check that never hits
IsCooldownHitNever(last_recommendation, symbol, action, t) == FALSE

\* last_recommendation is NoRec for None
IsCooldownHit(last_recommendation, symbol, action, t) ==
    IF last_recommendation = NoRec THEN FALSE
    ELSE IF last_recommendation.symbol # symbol THEN FALSE
    ELSE IF last_recommendation.action # action THEN FALSE
    ELSE t - last_recommendation.created_at < cooldown_minutes

\* the reversal check without its confidence threshold
IsReversalAllowedAnyConfidence(last_recommendation, action, confidence) == TRUE

IsReversalAllowed(last_recommendation, action, confidence) ==
    IF last_recommendation = NoRec THEN TRUE
    ELSE IF last_recommendation.action = action THEN TRUE
    ELSE IF last_recommendation.action \notin {"buy", "sell"}
            \/ action \notin {"buy", "sell"} THEN TRUE
    ELSE confidence >= ReversalConfidence

\* a finalization that takes the collaborator's action as it is
FinalizeRecommendationAnyAction(output, action_hint, n_features, n_news) ==
    [output EXCEPT
        !.market_features = IF @ = None THEN Min(4, n_features) ELSE @,
        !.news_citations = IF @ = None THEN Min(4, n_news) ELSE @]

\* _finalize_recommendation: n_features and n_news are the lengths of the
\* context's market_features and news_items
FinalizeRecommendation(output, action_hint, n_features, n_news) ==
    [output EXCEPT
        !.action = IF @ \in {"buy", "sell", "hold"} THEN @ ELSE action_hint,
        !.market_features = IF @ = None THEN Min(4, n_features) ELSE @,
        !.news_citations = IF @ = None THEN Min(4, n_news) ELSE @]

----------------------------------------------------------------------------
(* Discovery scorer.  The input is the outcome of each comparison the      *)
(* scorer makes on the bars and the news:                                  *)
(* [enough_data, above_ma7, ma7_over_ma20, momentum_7d, near_7d_high,      *)
(*  volume_expansion, turnover ("ok" | "mid" | "low"),                     *)
(*  news_bias ("positive" | "negative" | "even")].                         *)
(* The score is a float, the sum of the terms added in the order of the    *)
(* code.  The model keeps the order of these floats: a score is 8 times    *)
(* the decimal sum in tenths, plus the rank of the float sum among the     *)
(* float sums with the same decimal value, counted from the float of the   *)
(* decimal literal (0: equal to it, below 0: less than it).                *)

TriggerScore == 144               \* 1.8
BackupScore == 80                 \* 1.0

\* the sum of the terms in tenths, as decimals
DiscoveryTenths(f) ==
      (IF f.above_ma7 THEN 11 ELSE 0)
    + (IF f.ma7_over_ma20 THEN 9 ELSE 0)
    + (IF f.momentum_7d THEN 8 ELSE 0)
    + (IF f.near_7d_high THEN 8 ELSE 0)
    + (IF f.volume_expansion THEN 6 ELSE 0)
    + (IF f.turnover = "ok" THEN 4 ELSE IF f.turnover = "low" THEN 0 - 7 ELSE 0)
    + (IF f.news_bias = "positive" THEN 4
       ELSE IF f.news_bias = "negative" THEN 0 - 3 ELSE 0)

\* the position of the terms of f in FloatRanks
SignalIndex(f) ==
    1 + (IF f.above_ma7 THEN 1 ELSE 0) + (IF f.ma7_over_ma20 THEN 2 ELSE 0)
      + (IF f.momentum_7d THEN 4 ELSE 0) + (IF f.near_7d_high THEN 8 ELSE 0)
      + (IF f.volume_expansion THEN 16 ELSE 0)
      + 32 * (IF f.turnover = "ok" THEN 0 ELSE IF f.turnover = "mid" THEN 1 ELSE 2)
      + 96 * (IF f.news_bias = "positive" THEN 0
              ELSE IF f.news_bias = "even" THEN 1 ELSE 2)

\* for every choice of terms, 2 plus the rank of the IEEE-754 double that
\* `score += 1.1`, `+= 0.9`, `+= 0.8`, `+= 0.8`, `+= 0.6`, `+= 0.4` or
\* `-= 0.7`, `+= 0.4` or `-= 0.3` leave, starting from 0.0
FloatRanks ==
    <<
       2, 2, 3, 2, 2, 2, 2, 1, 2, 2, 2, 1, 2, 2, 2, 1, 2, 2, 2, 2, 1, 2, 2, 2, 1, 2, 2, 2, 2, 3, 2, 2,
       2, 2, 2, 2, 3, 3, 2, 1, 3, 3, 2, 1, 2, 2, 2, 1, 2, 2, 2, 2, 1, 2, 2, 2, 1, 2, 2, 2, 2, 2, 2, 2,
       3, 3, 3, 3, 3, 2, 4, 1, 3, 2, 4, 1, 3, 2, 2, 1, 3, 4, 3, 3, 2, 2, 3, 2, 2, 2, 3, 2, 4, 3, 3, 0,
       2, 2, 2, 2, 3, 3, 2, 1, 3, 3, 2, 1, 2, 2, 2, 1, 2, 2, 2, 2, 1, 2, 2, 2, 1, 2, 2, 2, 2, 2, 2, 2,
       2, 2, 2, 2, 2, 3, 3, 2, 2, 3, 3, 2, 2, 2, 2, 1, 2, 3, 2, 2, 2, 2, 3, 2, 2, 2, 3, 2, 2, 3, 2, 1,
       2, 3, 3, 2, 4, 3, 3, 1, 4, 3, 3, 1, 3, 2, 2, 1, 3, 3, 2, 3, 2, 2, 3, 2, 2, 2, 3, 2, 3, 3, 3, 1,
       3, 2, 2, 2, 3, 3, 2, 2, 3, 3, 2, 2, 2, 3, 2, 1, 2, 2, 1, 2, 1, 2, 3, 2, 1, 2, 3, 2, 3, 3, 2, 2,
       2, 2, 3, 2, 2, 2, 3, 2, 2, 2, 3, 2, 2, 3, 2, 2, 2, 3, 2, 3, 1, 2, 3, 2, 1, 2, 3, 2, 3, 3, 3, 1,
       2, 5, 4, 2, 3, 3, 3, 0, 3, 3, 3, 0, 3, 2, 2, 1, 3, 3, 2, 2, 1, 2, 3, 3, 1, 2, 3, 3, 3, 4, 3, 0 >>

\* a scorer that computes in decimals
DiscoveryScoreDecimal(f) == 8 * DiscoveryTenths(f)

DiscoveryScore(f) == 8 * DiscoveryTenths(f) + FloatRanks[SignalIndex(f)] - 2

\* the reasons list of the scorer
DiscoveryReasons(f) ==
    LET tags ==
            (IF f.above_ma7 THEN <<"above_ma7">> ELSE <<>>)
            \o (IF f.ma7_over_ma20 THEN <<"ma7_over_ma20">> ELSE <<>>)
            \o (IF f.momentum_7d THEN <<"momentum_7d">> ELSE <<>>)
            \o (IF f.near_7d_high THEN <<"near_7d_high">> ELSE <<>>)
            \o (IF f.volume_expansion THEN <<"volume_expansion">> ELSE <<>>)
            \o (IF f.turnover = "ok" THEN <<"turnover_ok">>
                ELSE IF f.turnover = "low" THEN <<"low_liquidity">> ELSE <<>>)
            \o (IF f.news_bias = "positive" THEN <<"positive_news_bias">>
                ELSE IF f.news_bias = "negative" THEN <<"negative_news_bias">>
                ELSE <<>>)
    IN  IF tags = <<>> THEN <<"symbol", "weak_signal">> ELSE tags

ScoreDiscoverySignal(f) ==
    IF ~f.enough_data
    THEN [triggered |-> FALSE, score |-> 0, action_hint |-> "hold",
          reasons |-> <<"insufficient_data">>]
    ELSE [triggered |-> DiscoveryScore(f) >= TriggerScore /\ f.turnover # "low",
          score |-> DiscoveryScore(f),
          action_hint |-> IF DiscoveryScore(f) >= 0 THEN "buy" ELSE "hold",
          reasons |-> DiscoveryReasons(f)]

\* list.sort(key=score, reverse=True): stable, highest score first
InsertByScore(cand, sorted) ==
    LET before == {i \in 1..Len(sorted) : sorted[i].score >= cand.score}
        k == Cardinality(before)
    IN  SubSeq(sorted, 1, k) \o <<cand>> \o SubSeq(sorted, k + 1, Len(sorted))
\* a sort that leaves the list in the order of completion
SortKeepsOrder(cands) == cands

SortByScore(cands) ==
    LET first[i \in 0..Len(cands)] ==
            IF i = 0 THEN <<>> ELSE InsertByScore(cands[i], first[i - 1])
    IN  first[Len(cands)]

Take(seq, n) == SubSeq(seq, 1, Min(n, Len(seq)))

\* a shortlist that forgets the candidates that triggered
ShortlistOfBackup(scored, backup, limit) ==
    Take(SortByScore(backup), Max(limit * 2, limit))

\* a shortlist of the best of both buckets
ShortlistOfBoth(scored, backup, limit) ==
    Take(SortByScore(scored \o backup), Max(limit * 2, limit))

\* The shortlist of discover_stocks from the two buckets
Shortlist(scored, backup, limit) ==
    LET cap == Max(limit * 2, limit)
        promoted == IF scored = <<>> /\ backup # <<>>
                    THEN Take(SortByScore(backup), cap) ELSE scored
    IN  Take(SortByScore(promoted), cap)

----------------------------------------------------------------------------
(* Inputs the environment supplies, drawn from small sets *)

\* what the repository holds when the engine starts: the watchlist and the
\* risk profile ("none": no preferences row) of every client
Databases ==
    { [watchlist |-> [c \in Clients |-> IF c = "c1" THEN <<"s1">> ELSE <<>>],
       preferences |-> [c \in Clients |-> IF c = "c1" THEN "conservative"
                                          ELSE "aggressive"]] }
DiscoveryClients == {"c1"}            \* the clients that ask for a discovery
LimitInputs == {0}                    \* the limit argument of trigger_discovery
UniverseLimitInputs == {50}

\* what the scorer finds for one symbol, and how many news items it has
SignalInputs ==
    { [enough_data |-> TRUE, above_ma7 |-> TRUE, ma7_over_ma20 |-> TRUE,
       momentum_7d |-> TRUE, near_7d_high |-> FALSE, volume_expansion |-> FALSE,
       turnover |-> "mid", news_bias |-> "even", news |-> 1],
      [enough_data |-> TRUE, above_ma7 |-> TRUE, ma7_over_ma20 |-> FALSE,
       momentum_7d |-> FALSE, near_7d_high |-> FALSE, volume_expansion |-> FALSE,
       turnover |-> "mid", news_bias |-> "even", news |-> 0],
      [enough_data |-> TRUE, above_ma7 |-> FALSE, ma7_over_ma20 |-> FALSE,
       momentum_7d |-> FALSE, near_7d_high |-> FALSE, volume_expansion |-> FALSE,
       turnover |-> "low", news_bias |-> "even", news |-> 0] }

\* what the reasoning collaborator returns
LlmOutputs ==
    { [action |-> "buy", target_position_pct |-> 80, confidence |-> 80,
       market_features |-> None, news_citations |-> None],
      [action |-> "hold", target_position_pct |-> 0, confidence |-> 10,
       market_features |-> 0, news_citations |-> 0] }

----------------------------------------------------------------------------
(* State *)

FreeTask ==
    [kind |-> "free", client |-> "", pc |-> "free", limit |-> 0,
     universe_limit |-> 0, risk_profile |-> "", fallback |-> <<>>,
     raw |-> <<>>, finished |-> {}, dropped |-> {}, cancelled |-> FALSE,
     scored |-> <<>>, backup |-> <<>>, shortlist |-> <<>>, idx |-> 0,
     output |-> <<>>]

NoCall == [op |-> "", client |-> "", state |-> "", message |-> ""]

EmptyMap == [c \in {} |-> DefaultScanStatus]

\* a _process_candidate call that is not running
FreeCall ==
    [pc |-> "free", client |-> "", symbol |-> "", action_hint |-> "",
     news |-> 0, risk_profile |-> "", last_rec |-> NoRec, row |-> 0,
     result |-> "none"]

\* n_calls: how many _process_candidate calls may run at a time; what the
\* last call was is left to the specification
InitWithCalls(n_calls) ==
    /\ now = 0
    /\ \E db \in Databases : watchlist = db.watchlist /\ preferences = db.preferences
    /\ status_by_client = EmptyMap
    /\ manual_tasks = [c \in Clients |-> NoTask]
    /\ discover_status_by_client = EmptyMap
    /\ discover_tasks = [c \in Clients |-> NoTask]
    /\ tasks = [t \in TaskIds |-> FreeTask]
    /\ scheduler = [pc |-> "idle", rest |-> <<>>]
    /\ escaped = {}
    /\ stored = <<>>
    /\ recommendations = <<>>
    /\ calls = [k \in 1..n_calls |-> FreeCall]
    /\ events = <<>>

InitEngine == InitWithCalls(MaxCalls) /\ last_call = NoCall

Init == InitEngine /\ connections = {}

\* datetime.now advances
Tick ==
    /\ now + TickMinutes <= MaxTime * TickMinutes
    /\ now' = now + TickMinutes
    /\ last_call' = NoCall
    /\ stored' = <<>>
    /\ UNCHANGED <<watchlist, preferences, status_by_client, manual_tasks,
                   discover_status_by_client, discover_tasks, tasks, scheduler,
                   escaped, pipeline_vars>>

----------------------------------------------------------------------------
(* Triggers and status reads *)

FreeIds(kind, c) ==
    {t \in TaskIds : t[1] = kind /\ t[2] = c /\ tasks[t].pc = "free"}
NewTaskId(kind, c) ==
    CHOOSE t \in FreeIds(kind, c) : \A u \in FreeIds(kind, c) : t[3] <= u[3]

\* the trigger without its check for an unfinished task
IsActiveNever(existing) == FALSE

\* existing and not existing.done()
IsActive(existing) == existing # NoTask /\ tasks[existing].pc # "free"

Response(op, c, state, message) ==
    [op |-> op, client |-> c, state |-> state, message |-> message]

TriggerScan(c) ==
    /\ IF IsActive(manual_tasks[c])
       THEN /\ last_call' = Response("trigger_scan", c, "already_running",
                   IF c \in DOMAIN status_by_client
                   THEN status_by_client[c].message
                   ELSE "AI selection is running.")
            /\ UNCHANGED <<manual_tasks, tasks>>
       ELSE /\ FreeIds("scan", c) # {}
            /\ tasks' = [tasks EXCEPT ![NewTaskId("scan", c)] =
                            [FreeTask EXCEPT !.kind = "scan", !.client = c,
                                             !.pc = "pending"]]
            /\ manual_tasks' = [manual_tasks EXCEPT ![c] = NewTaskId("scan", c)]
            /\ last_call' = Response("trigger_scan", c, "started",
                                     "AI selection started.")
    /\ stored' = <<>>
    /\ UNCHANGED <<now, watchlist, preferences, status_by_client,
                   discover_status_by_client, discover_tasks, scheduler,
                   escaped, pipeline_vars>>

\* asdict(status), or of a default ScanStatus for a client without entry
ScanStatusOf(c) == OrDefault(status_by_client, c, DefaultScanStatus)

\* a read that leaves the default it returns in the map
GetScanStatusSetDefault(c) ==
    /\ last_call' = Response("get_scan_status", c, ScanStatusOf(c).state,
                             ScanStatusOf(c).message)
    /\ status_by_client' = Put(status_by_client, c, ScanStatusOf(c))
    /\ stored' = <<>>
    /\ UNCHANGED <<now, watchlist, preferences, manual_tasks,
                   discover_status_by_client, discover_tasks, tasks, scheduler,
                   escaped, pipeline_vars>>

GetScanStatus(c) ==
    /\ last_call' = Response("get_scan_status", c, ScanStatusOf(c).state,
                             ScanStatusOf(c).message)
    /\ stored' = <<>>
    /\ UNCHANGED <<now, watchlist, preferences, status_by_client, manual_tasks,
                   discover_status_by_client, discover_tasks, tasks, scheduler,
                   escaped, pipeline_vars>>

TriggerDiscovery(c, limit, universe_limit) ==
    /\ IF IsActive(discover_tasks[c])
       THEN /\ last_call' = Response("trigger_discovery", c, "already_running",
                   IF c \in DOMAIN discover_status_by_client
                   THEN discover_status_by_client[c].message
                   ELSE "Discovery task is running.")
            /\ UNCHANGED <<discover_tasks, tasks>>
       ELSE /\ FreeIds("discover", c) # {}
            /\ tasks' = [tasks EXCEPT ![NewTaskId("discover", c)] =
                            [FreeTask EXCEPT
                                !.kind = "discover", !.client = c, !.pc = "pending",
                                !.limit = Max(1, Min(limit, 20)),
                                !.universe_limit = Max(20, Min(universe_limit, 300))]]
            /\ discover_tasks' = [discover_tasks EXCEPT ![c] = NewTaskId("discover", c)]
            /\ last_call' = Response("trigger_discovery", c, "started",
                                     "Discovery task started.")
    /\ stored' = <<>>
    /\ UNCHANGED <<now, watchlist, preferences, status_by_client,
                   manual_tasks, discover_status_by_client, scheduler,
                   escaped, pipeline_vars>>

DiscoveryStatusOf(c) ==
    OrDefault(discover_status_by_client, c, DefaultDiscoverStatus)

GetDiscoveryStatus(c) ==
    /\ last_call' = Response("get_discovery_status", c, DiscoveryStatusOf(c).state,
                             DiscoveryStatusOf(c).message)
    /\ stored' = <<>>
    /\ UNCHANGED <<now, watchlist, preferences, status_by_client, manual_tasks,
                   discover_status_by_client, discover_tasks, tasks, scheduler,
                   escaped, pipeline_vars>>

----------------------------------------------------------------------------
(* The manual scan task and the scheduler's job *)

\* a finally clause that leaves the entry in the map
PopTaskNever(map, c, t) == map

\* finally: pop the client's entry if it still is this task
PopTask(map, c, t) == IF map[c] = t THEN [map EXCEPT ![c] = NoTask] ELSE map

\* where task t stands: the await it is suspended at, or not yet started
At(t, kind, pc) == tasks[t].kind = kind /\ tasks[t].pc = pc

\* a manual scan that also forgets the client's discovery status
RunManualScanDropsDiscovery(t) ==
    /\ At(t, "scan", "pending")
    /\ LET c == tasks[t].client
           r == RunManualScanBody(status_by_client, c, now, watchlist[c])
       IN  /\ status_by_client' = r.map
           /\ stored' = r.stored
           /\ discover_status_by_client' =
                  [d \in DOMAIN discover_status_by_client \ {c} |->
                       discover_status_by_client[d]]
           /\ tasks' = [tasks EXCEPT ![t] = FreeTask]
           /\ manual_tasks' = PopTask(manual_tasks, c, t)
           /\ escaped' = IF r.escaped = NoError THEN escaped
                         ELSE escaped \cup {r.escaped}
    /\ last_call' = NoCall
    /\ UNCHANGED <<now, watchlist, preferences, discover_tasks, scheduler,
                   pipeline_vars>>

RunManualScan(t) ==
    /\ At(t, "scan", "pending")
    /\ LET c == tasks[t].client
           r == RunManualScanBody(status_by_client, c, now, watchlist[c])
       IN  /\ status_by_client' = r.map
           /\ stored' = r.stored
           /\ IF r.pc = "done"
              THEN /\ tasks' = [tasks EXCEPT ![t] = FreeTask]
                   /\ manual_tasks' = PopTask(manual_tasks, c, t)
                   /\ escaped' = IF r.escaped = NoError THEN escaped
                                 ELSE escaped \cup {r.escaped}
              ELSE /\ tasks' = [tasks EXCEPT ![t].pc = r.pc]
                   /\ UNCHANGED <<manual_tasks, escaped>>
    /\ last_call' = NoCall
    /\ UNCHANGED <<now, watchlist, preferences, discover_status_by_client,
                   discover_tasks, scheduler, pipeline_vars>>

\* _scan_job of the scheduler (max_instances = 1)
SchedulerScan ==
    /\ scheduler.pc = "idle"
    /\ LET r == ScanAllClients(status_by_client,
                               GetAllClientIds(watchlist, preferences),
                               now, watchlist)
       IN  /\ status_by_client' = r.map
           /\ stored' = r.stored
           /\ scheduler' =
                  IF r.pc = "collecting"
                  THEN [pc |-> "collecting", rest |-> r.rest]
                  ELSE [pc |-> "idle", rest |-> <<>>]
           /\ last_call' = Response("scan_job", "", r.pc, r.exc)
    /\ UNCHANGED <<now, watchlist, preferences, manual_tasks,
                   discover_status_by_client, discover_tasks, tasks, escaped,
                   pipeline_vars>>

----------------------------------------------------------------------------
(* The discovery task: _run_discovery_task around discover_stocks *)

DiscoveryConcurrency == 4         \* asyncio.Semaphore(4)

SucceededMessage(items) ==
    IF items # <<>>
    THEN "Discovery completed. found=" \o ToString(Len(items)) \o "."
    ELSE "Discovery completed. no stocks found."

\* progress_hook of _run_discovery_task
ProgressHook(m, t, step, progress, message, scanned, total) ==
    SetDiscoveryRunningStatus(m, tasks[t].client, now, step, progress, message,
                              tasks[t].limit, tasks[t].universe_limit,
                              scanned, total)

\* The trace of a sequence of status maps the task stored one after another
DiscStores(t, maps) ==
    [i \in 1..Len(maps) |-> Store("discover", tasks[t].client,
                                  maps[i][tasks[t].client])]

\* The task ends after the status updates that left the maps `maps`: the
\* finally clause pops it
EndDiscoveryTask(t, maps) ==
    /\ discover_status_by_client' = maps[Len(maps)]
    /\ stored' = DiscStores(t, maps)
    /\ tasks' = [tasks EXCEPT ![t] = FreeTask]
    /\ discover_tasks' = PopTask(discover_tasks, tasks[t].client, t)

\* The task goes on to its next suspension point as `task`
ContinueDiscoveryTask(t, maps, task) ==
    /\ discover_status_by_client' = maps[Len(maps)]
    /\ stored' = DiscStores(t, maps)
    /\ tasks' = [tasks EXCEPT ![t] = task]
    /\ UNCHANGED discover_tasks

\* discover_stocks returned items: _set_discovery_succeeded_status
Succeeded(t, m, items) ==
    SetDiscoverySucceededStatus(m, tasks[t].client, now, SucceededMessage(items),
                                items, tasks[t].limit, tasks[t].universe_limit)

\* From the start of the task to the await of the universe provider; the
\* repository reads at the head of discover_stocks may raise.
DiscStart(t) ==
    /\ At(t, "discover", "pending")
    /\ LET c == tasks[t].client
           m1 == ProgressHook(discover_status_by_client, t, "preparing", 5,
                              "Preparing discovery task.", 0, 0)
           capped == Max(20, Min(tasks[t].universe_limit, 120))
           m2 == ProgressHook(m1, t, "loading_universe", 10,
                     "Loading candidate universe (limit="
                         \o ToString(capped) \o ").", 0, 0)
           failed == SetDiscoveryFailedStatus(m1, c, now,
                         "Discovery task failed.", DbError,
                         tasks[t].limit, tasks[t].universe_limit)
       IN  \E db_ok \in BOOLEAN :
             IF db_ok
             THEN ContinueDiscoveryTask(t, <<m1, m2>>,
                      [tasks[t] EXCEPT
                          !.pc = "loading_universe",
                          !.risk_profile = IF preferences[c] = "none"
                                           THEN "neutral" ELSE preferences[c],
                          !.fallback = watchlist[c]])
             ELSE EndDiscoveryTask(t, <<m1, failed>>)
    /\ last_call' = NoCall
    /\ UNCHANGED <<now, watchlist, preferences, status_by_client, manual_tasks,
                   scheduler, escaped, pipeline_vars>>

\* The universe provider answered with n symbols (n = 0 also stands for its
\* exception or its 12 s timeout); up to the gather of the evaluations.
DiscUniverse(t, n) ==
    /\ At(t, "discover", "loading_universe")
    /\ LET loaded == IF n = 0 THEN tasks[t].fallback ELSE Universe(n)
           scan_limit == Min(Len(loaded), Max(tasks[t].limit * 6, 30))
           m1 == ProgressHook(discover_status_by_client, t,
                     "collecting_candidates", 20,
                     "Collecting market/news data (0/"
                         \o ToString(scan_limit) \o ").", 0, scan_limit)
       IN  IF loaded = <<>>
           THEN EndDiscoveryTask(t, <<Succeeded(t, discover_status_by_client, <<>>)>>)
           ELSE ContinueDiscoveryTask(t, <<m1>>,
                    [tasks[t] EXCEPT !.pc = "collecting",
                                     !.raw = Take(loaded, scan_limit)])
    /\ last_call' = NoCall
    /\ UNCHANGED <<now, watchlist, preferences, status_by_client, manual_tasks,
                   scheduler, escaped, pipeline_vars>>

\* a gather whose evaluations take no semaphore
InFlightAll(t) ==
    {i \in 1..Len(tasks[t].raw) : i \notin tasks[t].finished \cup tasks[t].dropped}

\* The evaluations that hold the semaphore: gather starts them in list order
\* and the semaphore admits them in that order
InFlight(t) ==
    {i \in 1..Len(tasks[t].raw) :
        /\ i \notin tasks[t].finished \cup tasks[t].dropped
        /\ i <= DiscoveryConcurrency + Cardinality(tasks[t].finished)}

\* One _evaluate ends: with a scored candidate (f), or by an exception, a
\* per-call timeout or the cancellation of the gather (failed); its finally
\* clause reports the progress.
CanEvaluate(t, i, failed) ==
    /\ At(t, "discover", "collecting")
    /\ i \in InFlight(t)
    /\ tasks[t].cancelled => failed

DiscEvaluate(t, i, failed, f) ==
    /\ CanEvaluate(t, i, failed)
    /\ LET signal == ScoreDiscoverySignal(f)
           candidate == [symbol |-> tasks[t].raw[i], score |-> signal.score,
                         action_hint |-> signal.action_hint,
                         reasons |-> signal.reasons, news |-> f.news]
           processed == Cardinality(tasks[t].finished) + 1
           scan_limit == Len(tasks[t].raw)
           m1 == ProgressHook(discover_status_by_client, t,
                     "collecting_candidates",
                     20 + ((processed * 50) \div Max(1, scan_limit)),
                     "Collecting market/news data (" \o ToString(processed)
                         \o "/" \o ToString(scan_limit) \o ").",
                     processed, scan_limit)
       IN  ContinueDiscoveryTask(t, <<m1>>,
               [tasks[t] EXCEPT
                   !.finished = @ \cup {i},
                   !.scored = IF ~failed /\ signal.triggered
                              THEN Append(@, candidate) ELSE @,
                   !.backup = IF ~failed /\ ~signal.triggered
                                 /\ signal.score >= BackupScore
                              THEN Append(@, candidate) ELSE @])
    /\ last_call' = NoCall
    /\ UNCHANGED <<now, watchlist, preferences, status_by_client, manual_tasks,
                   scheduler, escaped, pipeline_vars>>

\* The 35 s timeout of the gather: every evaluation is cancelled.  Those that
\* wait for the semaphore end at once; those in flight end by their finally
\* clause (DiscEvaluate, failed).
CanTimeout(t) ==
    /\ At(t, "discover", "collecting")
    /\ ~tasks[t].cancelled
    /\ tasks[t].finished # 1..Len(tasks[t].raw)

DiscTimeout(t) ==
    /\ CanTimeout(t)
    /\ tasks' = [tasks EXCEPT
           ![t].cancelled = TRUE,
           ![t].dropped = (1..Len(tasks[t].raw)) \ (tasks[t].finished \cup InFlight(t))]
    /\ last_call' = NoCall
    /\ stored' = <<>>
    /\ UNCHANGED <<now, watchlist, preferences, status_by_client, manual_tasks,
                   discover_status_by_client, discover_tasks, scheduler, escaped,
                   pipeline_vars>>

\* The gather ended: every evaluation finished or was cancelled.  The
\* shortlist is built; up to the first reasoning call.
CanGatherDone(t) ==
    /\ At(t, "discover", "collecting")
    /\ tasks[t].finished \cup tasks[t].dropped = 1..Len(tasks[t].raw)

DiscGatherDone(t) ==
    /\ CanGatherDone(t)
    /\ LET shortlist == Shortlist(tasks[t].scored, tasks[t].backup, tasks[t].limit)
           scan_limit == Len(tasks[t].raw)
           m1 == ProgressHook(discover_status_by_client, t,
                     "llm_reasoning", 72,
                     "Running AI reasoning (0/" \o ToString(Len(shortlist)) \o ").",
                     scan_limit, scan_limit)
       IN  IF shortlist = <<>>
           THEN EndDiscoveryTask(t, <<Succeeded(t, discover_status_by_client, <<>>)>>)
           ELSE ContinueDiscoveryTask(t, <<m1>>,
                    [tasks[t] EXCEPT !.pc = "reasoning",
                                     !.shortlist = shortlist,
                                     !.idx = 1])
    /\ last_call' = NoCall
    /\ UNCHANGED <<now, watchlist, preferences, status_by_client, manual_tasks,
                   scheduler, escaped, pipeline_vars>>

DiscoverItem(candidate, recommendation) ==
    [symbol |-> candidate.symbol, action |-> recommendation.action,
     score |-> candidate.score, confidence |-> recommendation.confidence,
     news_count |-> candidate.news,
     target_position_pct |-> recommendation.target_position_pct]

\* what both reasoning loops make of llm_output: _finalize_recommendation,
\* then apply_guardrails (news: the number of news items of the candidate)
ReasonedRecommendation(llm_output, action_hint, news, risk_profile) ==
    ApplyGuardrails(
        FinalizeRecommendation(llm_output, action_hint, MarketFeatureCount,
                               Min(8, news)),
        risk_profile)

\* The body of the reasoning loop of discover_stocks for one candidate: the
\* output list after it.  An exception of the reasoning call (failed) and a
\* recommendation without enough evidence leave the list as it is.
DiscOutput(output, candidate, failed, llm_output, risk_profile) ==
    LET recommendation ==
            ReasonedRecommendation(llm_output, candidate.action_hint,
                                   candidate.news, risk_profile)
    IN  IF ~failed /\ HasEnoughEvidence(recommendation)
        THEN Append(output, DiscoverItem(candidate, recommendation))
        ELSE output

\* The reasoning call for shortlist[idx] ended: by an exception (failed) or
\* with llm_output; up to the next reasoning call or to the end of the task.
DiscReason(t, failed, llm_output) ==
    /\ At(t, "discover", "reasoning")
    /\ LET idx == tasks[t].idx
           shortlist == tasks[t].shortlist
           candidate == shortlist[idx]
           scan_limit == Len(tasks[t].raw)
           output == DiscOutput(tasks[t].output, candidate, failed, llm_output,
                                tasks[t].risk_profile)
           accepted == Len(output) > Len(tasks[t].output)
           m0 == discover_status_by_client
           m1 == ProgressHook(m0, t, "llm_reasoning",
                     72 + ((idx * 24) \div Max(1, Len(shortlist))),
                     "Running AI reasoning (" \o ToString(idx) \o "/"
                         \o ToString(Len(shortlist)) \o ").",
                     scan_limit, scan_limit)
           hooked == IF accepted THEN <<m1>> ELSE <<>>
           m2 == ProgressHook(IF accepted THEN m1 ELSE m0, t, "finalizing", 98,
                     "Finalizing discovery results ("
                         \o ToString(Len(output)) \o ").",
                     scan_limit, scan_limit)
           stop == (accepted /\ Len(output) >= tasks[t].limit)
                       \/ idx = Len(shortlist)
       IN  IF stop
           THEN EndDiscoveryTask(t, hooked \o <<m2, Succeeded(t, m2, output)>>)
           ELSE IF accepted
           THEN ContinueDiscoveryTask(t, <<m1>>,
                    [tasks[t] EXCEPT !.idx = idx + 1, !.output = output])
           ELSE /\ tasks' = [tasks EXCEPT ![t].idx = idx + 1]
                /\ stored' = <<>>
                /\ UNCHANGED <<discover_status_by_client, discover_tasks>>
    /\ last_call' = NoCall
    /\ UNCHANGED <<now, watchlist, preferences, status_by_client, manual_tasks,
                   scheduler, escaped, pipeline_vars>>

----------------------------------------------------------------------------
(* The candidate pipeline: _process_candidate, called for one candidate of  *)
(* a client.  A row of the recommendations table is a record                *)
(* [id, client, symbol, action, target_position_pct, confidence,            *)
(* created_at]; the ids are the positions in the table.                    *)

\* a read of the table that finds no row
GetLastRecommendationNone(rows, c, symbol) == NoRec

\* repository.get_last_recommendation: the newest row of the client and the
\* symbol (created_at never decreases along the table), NoRec if there is none
GetLastRecommendation(rows, c, symbol) ==
    LET mine == {i \in 1..Len(rows) : rows[i].client = c /\ rows[i].symbol = symbol}
    IN  IF mine = {} THEN NoRec
        ELSE rows[CHOOSE i \in mine : \A j \in mine : j <= i]

\* repository.create_recommendation
CreateRecommendation(rows, c, symbol, recommendation, t) ==
    Append(rows, [id |-> Len(rows) + 1, client |-> c, symbol |-> symbol,
                  action |-> recommendation.action,
                  target_position_pct |-> recommendation.target_position_pct,
                  confidence |-> recommendation.confidence,
                  created_at |-> t])

\* the candidates the pipeline is called with, and what the reasoning
\* collaborator returns for them
PipelineClients == {"c1"}
PipelineSymbols == {"s1"}
ActionHints == {"buy", "sell"}
PipelineLlmOutputs ==
    { [action |-> a, target_position_pct |-> 80, confidence |-> conf,
       market_features |-> None, news_citations |-> None] :
         a \in {"buy", "sell", "hold", "wait"}, conf \in {74, 75} }
    \cup { [action |-> "buy", target_position_pct |-> 10, confidence |-> 90,
            market_features |-> 1, news_citations |-> 0] }

InFlightCalls == {k \in DOMAIN calls : calls[k].pc # "free"}

\* the call ends: what it returned ("True" | "False") or "raised"
EndCall(k, result) ==
    /\ calls' = [calls EXCEPT ![k] = FreeCall]
    /\ last_call' = Response("process_candidate", calls[k].client, result,
                             calls[k].symbol)

\* _process_candidate from its entry to the await of the reasoning call, or
\* to its return when the cooldown check on the action hint hits.
ProcessStart(k, c, symbol, action_hint, news) ==
    /\ calls[k].pc = "free"
    /\ Len(recommendations) + Cardinality(InFlightCalls) < MaxRecs
    /\ LET last_rec == GetLastRecommendation(recommendations, c, symbol)
       IN  IF last_rec # NoRec /\ IsCooldownHit(last_rec, symbol, action_hint, now)
           THEN /\ last_call' = Response("process_candidate", c, "False", symbol)
                /\ UNCHANGED calls
           ELSE /\ calls' = [calls EXCEPT ![k] =
                       [FreeCall EXCEPT
                           !.pc = "generate", !.client = c, !.symbol = symbol,
                           !.action_hint = action_hint, !.news = news,
                           !.risk_profile = IF preferences[c] = "none"
                                            THEN "neutral" ELSE preferences[c],
                           !.last_rec = last_rec]]
                /\ last_call' = NoCall
    /\ stored' = <<>>
    /\ UNCHANGED <<now, watchlist, preferences, status_by_client, manual_tasks,
                   discover_status_by_client, discover_tasks, tasks, scheduler,
                   escaped, recommendations, connections, events>>

\* The reasoning call ended: by an exception (failed), which leaves the call,
\* or with llm_output; up to the send of the event or to the return.
ProcessGenerated(k, failed, llm_output) ==
    /\ calls[k].pc = "generate"
    /\ LET call == calls[k]
           recommendation ==
               ReasonedRecommendation(llm_output, call.action_hint, call.news,
                                      call.risk_profile)
       IN  IF failed
           THEN EndCall(k, "raised") /\ UNCHANGED recommendations
           ELSE IF ~HasEnoughEvidence(recommendation)
           THEN EndCall(k, "False") /\ UNCHANGED recommendations
           ELSE IF ~IsReversalAllowed(call.last_rec, recommendation.action,
                                      recommendation.confidence)
           THEN EndCall(k, "False") /\ UNCHANGED recommendations
           ELSE /\ recommendations' =
                      CreateRecommendation(recommendations, call.client,
                                           call.symbol, recommendation, now)
                /\ IF call.client \in connections
                   THEN /\ calls' = [calls EXCEPT
                               ![k].pc = "sending",
                               ![k].row = Len(recommendations) + 1]
                        /\ last_call' = NoCall
                   ELSE EndCall(k, "True")
    /\ stored' = <<>>
    /\ UNCHANGED <<now, watchlist, preferences, status_by_client, manual_tasks,
                   discover_status_by_client, discover_tasks, tasks, scheduler,
                   escaped, connections, events>>

\* a send_event that lets the exception of the socket out and keeps the socket
ProcessSentRaises(k, ok) ==
    /\ calls[k].pc = "sending"
    /\ IF ok
       THEN events' = Append(events, [client |-> calls[k].client,
                                      type |-> "server.recommendation.created",
                                      id |-> calls[k].row])
       ELSE UNCHANGED events
    /\ EndCall(k, IF ok THEN "True" ELSE "raised")
    /\ stored' = <<>>
    /\ UNCHANGED <<now, watchlist, preferences, status_by_client, manual_tasks,
                   discover_status_by_client, discover_tasks, tasks, scheduler,
                   escaped, recommendations, connections>>

\* send_event: the socket took the event (ok), or raised and is dropped
ProcessSent(k, ok) ==
    /\ calls[k].pc = "sending"
    /\ IF ok
       THEN /\ events' = Append(events, [client |-> calls[k].client,
                                         type |-> "server.recommendation.created",
                                         id |-> calls[k].row])
            /\ UNCHANGED connections
       ELSE /\ connections' = connections \ {calls[k].client}
            /\ UNCHANGED events
    /\ EndCall(k, "True")
    /\ stored' = <<>>
    /\ UNCHANGED <<now, watchlist, preferences, status_by_client, manual_tasks,
                   discover_status_by_client, discover_tasks, tasks, scheduler,
                   escaped, recommendations>>

----------------------------------------------------------------------------
(* The engine *)

\* The inputs the engine specification draws: a symbol that triggers, and the
\* reasoning outputs (one leaves the evidence to the finalizer, one cites
\* nothing)
EngineSignals == {f \in SignalInputs : f.momentum_7d}
EngineLlmOutputs == LlmOutputs

Next ==
    \/ \E c \in Clients : TriggerScan(c)
    \/ \E c \in Clients : GetScanStatus(c)
    \/ \E c \in DiscoveryClients, limit \in LimitInputs, ul \in UniverseLimitInputs :
          TriggerDiscovery(c, limit, ul)
    \/ \E c \in DiscoveryClients : GetDiscoveryStatus(c)
    \/ \E t \in TaskIds : RunManualScan(t)
    \/ SchedulerScan
    \/ \E t \in TaskIds : DiscStart(t)
    \/ \E t \in TaskIds, n \in 0..MaxUniverse : DiscUniverse(t, n)
    \/ \E t \in TaskIds, i \in 1..MaxUniverse, failed \in BOOLEAN, f \in EngineSignals :
          DiscEvaluate(t, i, failed, f)
    \/ \E t \in TaskIds : DiscTimeout(t)
    \/ \E t \in TaskIds : DiscGatherDone(t)
    \/ \E t \in TaskIds, failed \in BOOLEAN, out \in EngineLlmOutputs :
          DiscReason(t, failed, out)

\* The engine while the clock reading stays the same
Spec == Init /\ [][Next]_vars

\* The candidate pipeline called on candidates, with the clock advancing and
\* the client connected when it starts
InitPipeline == InitEngine /\ connections = PipelineClients

NextPipeline ==
    \/ Tick
    \/ \E k \in 1..MaxCalls, c \in PipelineClients, symbol \in PipelineSymbols,
          action_hint \in ActionHints :
          ProcessStart(k, c, symbol, action_hint, 1)
    \/ \E k \in 1..MaxCalls, failed \in BOOLEAN, out \in PipelineLlmOutputs :
          ProcessGenerated(k, failed, out)
    \/ \E k \in 1..MaxCalls, ok \in BOOLEAN : ProcessSent(k, ok)

SpecPipeline == InitPipeline /\ [][NextPipeline]_vars

\* _run_candidate of scan_one_client, for the only candidate of a scan, when
\* the cooldown check of _process_candidate rejects it: _process_candidate
\* returns False before its first await, then processed becomes 1 and
\* _set_running_status is called (the two locks are free, so nothing
\* suspends); what _set_running_status raises leaves _run_candidate.
RunCandidateRejected(c, symbol, action_hint) ==
    /\ LET last_rec == GetLastRecommendation(recommendations, c, symbol)
       IN  last_rec # NoRec /\ IsCooldownHit(last_rec, symbol, action_hint, now)
    /\ LET r == SetRunningStatus(status_by_client, c, now, "llm_reasoning",
                    ScanReasonProgress(1, 1), "Running AI analysis (1/1).",
                    1, 1, 1, 0)
       IN  /\ status_by_client' = r.map
           /\ stored' = r.stored
           /\ last_call' = Response("_run_candidate", c,
                               IF r.exc = NoError THEN "returned" ELSE "raised",
                               symbol)
    /\ UNCHANGED <<now, watchlist, preferences, manual_tasks,
                   discover_status_by_client, discover_tasks, tasks, scheduler,
                   escaped, pipeline_vars>>

\* The candidate pipeline called directly and through _run_candidate
NextGate ==
    \/ NextPipeline
    \/ \E c \in PipelineClients, symbol \in PipelineSymbols,
          action_hint \in ActionHints :
          RunCandidateRejected(c, symbol, action_hint)

SpecGate == InitPipeline /\ [][NextGate]_vars

\* discover_stocks called by the HTTP route, without a progress hook: it
\* reads the repository and the providers and calls the reasoning
\* collaborator, writes nothing of the engine, and returns its items to the
\* route (from the call to the return in one step)
DiscoverStocksDirect(c) ==
    /\ last_call' = Response("discover_stocks", c, "returned", "")
    /\ stored' = <<>>
    /\ UNCHANGED <<now, watchlist, preferences, status_by_client, manual_tasks,
                   discover_status_by_client, discover_tasks, tasks, scheduler,
                   escaped, pipeline_vars>>

\* The engine with the discovery route beside the tasks
NextFrame ==
    \/ Next
    \/ \E c \in DiscoveryClients : DiscoverStocksDirect(c)

SpecFrame == Init /\ [][NextFrame]_vars

\* Discovery jobs of a client one after another while the clock advances;
\* the universe provider answers with no symbol or with one
NextClock ==
    \/ Tick
    \/ \E c \in DiscoveryClients, limit \in LimitInputs, ul \in UniverseLimitInputs :
          TriggerDiscovery(c, limit, ul)
    \/ \E t \in TaskIds : DiscStart(t)
    \/ \E t \in TaskIds, n \in 0..1 : DiscUniverse(t, n)
    \/ \E t \in TaskIds, failed \in BOOLEAN, f \in EngineSignals :
          DiscEvaluate(t, 1, failed, f)
    \/ \E t \in TaskIds : DiscGatherDone(t)
    \/ \E t \in TaskIds, failed \in BOOLEAN, out \in EngineLlmOutputs :
          DiscReason(t, failed, out)

SpecClock == Init /\ [][NextClock]_vars

\* The fan-out of discovery over a universe larger than the semaphore: the
\* universe provider answers with up to FanOutUniverse symbols and no symbol
\* scores high enough to be kept, so the task ends after the gather
FanOutUniverse == 6
FanOutSignals == {f \in SignalInputs : f.turnover = "low"}

NextFanOut ==
    \/ \E c \in DiscoveryClients, limit \in LimitInputs, ul \in UniverseLimitInputs :
          TriggerDiscovery(c, limit, ul)
    \/ \E t \in TaskIds : DiscStart(t)
    \/ \E t \in TaskIds, n \in 0..FanOutUniverse : DiscUniverse(t, n)
    \/ \E t \in TaskIds, i \in 1..FanOutUniverse, failed \in BOOLEAN,
          f \in FanOutSignals :
          DiscEvaluate(t, i, failed, f)
    \/ \E t \in TaskIds : DiscTimeout(t)
    \/ \E t \in TaskIds : DiscGatherDone(t)

SpecFanOut == Init /\ [][NextFanOut]_vars

\* The fan-out over signals of every kind the two buckets tell apart: a
\* strong signal on an illiquid symbol, the sum of 0.8, 0.6 and 0.4, a
\* triggered one, a weak one and a negative one
BucketSignals ==
    { [enough_data |-> TRUE, above_ma7 |-> TRUE, ma7_over_ma20 |-> TRUE,
       momentum_7d |-> TRUE, near_7d_high |-> TRUE, volume_expansion |-> TRUE,
       turnover |-> "low", news_bias |-> "even", news |-> 0],
      [enough_data |-> TRUE, above_ma7 |-> FALSE, ma7_over_ma20 |-> FALSE,
       momentum_7d |-> FALSE, near_7d_high |-> TRUE, volume_expansion |-> TRUE,
       turnover |-> "ok", news_bias |-> "even", news |-> 0],
      [enough_data |-> TRUE, above_ma7 |-> TRUE, ma7_over_ma20 |-> TRUE,
       momentum_7d |-> FALSE, near_7d_high |-> FALSE, volume_expansion |-> FALSE,
       turnover |-> "mid", news_bias |-> "even", news |-> 1],
      [enough_data |-> TRUE, above_ma7 |-> TRUE, ma7_over_ma20 |-> FALSE,
       momentum_7d |-> FALSE, near_7d_high |-> FALSE, volume_expansion |-> FALSE,
       turnover |-> "mid", news_bias |-> "even", news |-> 0],
      [enough_data |-> TRUE, above_ma7 |-> FALSE, ma7_over_ma20 |-> FALSE,
       momentum_7d |-> FALSE, near_7d_high |-> FALSE, volume_expansion |-> FALSE,
       turnover |-> "low", news_bias |-> "negative", news |-> 1] }

NextBuckets ==
    \/ \E c \in DiscoveryClients, limit \in LimitInputs, ul \in UniverseLimitInputs :
          TriggerDiscovery(c, limit, ul)
    \/ \E t \in TaskIds : DiscStart(t)
    \/ \E t \in TaskIds, n \in 0..MaxUniverse : DiscUniverse(t, n)
    \/ \E t \in TaskIds, i \in 1..MaxUniverse, failed \in BOOLEAN,
          f \in BucketSignals :
          DiscEvaluate(t, i, failed, f)
    \/ \E t \in TaskIds : DiscTimeout(t)
    \/ \E t \in TaskIds : DiscGatherDone(t)

SpecBuckets == Init /\ [][NextBuckets]_vars

\* A discovery over a universe with more symbols than the shortlist of
\* the smallest limit holds, with two signals that trigger and two that
\* go to the backup bucket, in which every evaluation returns
ShortlistUniverse == 3

ShortlistSignals ==
    { [enough_data |-> TRUE, above_ma7 |-> TRUE, ma7_over_ma20 |-> TRUE,
       momentum_7d |-> TRUE, near_7d_high |-> FALSE, volume_expansion |-> FALSE,
       turnover |-> "mid", news_bias |-> "even", news |-> 1],
      [enough_data |-> TRUE, above_ma7 |-> TRUE, ma7_over_ma20 |-> TRUE,
       momentum_7d |-> FALSE, near_7d_high |-> FALSE, volume_expansion |-> FALSE,
       turnover |-> "mid", news_bias |-> "even", news |-> 1],
      [enough_data |-> TRUE, above_ma7 |-> TRUE, ma7_over_ma20 |-> FALSE,
       momentum_7d |-> FALSE, near_7d_high |-> FALSE, volume_expansion |-> FALSE,
       turnover |-> "mid", news_bias |-> "even", news |-> 0],
      [enough_data |-> TRUE, above_ma7 |-> TRUE, ma7_over_ma20 |-> FALSE,
       momentum_7d |-> FALSE, near_7d_high |-> FALSE, volume_expansion |-> TRUE,
       turnover |-> "mid", news_bias |-> "even", news |-> 0] }

NextShortlist ==
    \/ \E c \in DiscoveryClients, limit \in LimitInputs, ul \in UniverseLimitInputs :
          TriggerDiscovery(c, limit, ul)
    \/ \E t \in TaskIds : DiscStart(t)
    \/ \E t \in TaskIds, n \in 1..ShortlistUniverse : DiscUniverse(t, n)
    \/ \E t \in TaskIds, i \in 1..ShortlistUniverse, f \in ShortlistSignals :
          DiscEvaluate(t, i, FALSE, f)
    \/ \E t \in TaskIds : DiscGatherDone(t)
    \/ \E t \in TaskIds, failed \in BOOLEAN, out \in EngineLlmOutputs :
          DiscReason(t, failed, out)

SpecShortlist == Init /\ [][NextShortlist]_vars

----------------------------------------------------------------------------
(* The prefilter of the watchlist path.  Volume ratios and scores are in   *)
(* tenths, the drawdown in hundredths; the bars enter by their number and  *)
(* the news by whether an item with a positive and one with a negative     *)
(* sentiment_hint is among them.                                           *)

min_turnover_20d == 100000000

\* a volume threshold that ignores the risk profile
VolThresholdConservative(risk_profile) == 17

\* _vol_threshold
VolThreshold(risk_profile) ==
    IF risk_profile = "aggressive" THEN 13
    ELSE IF risk_profile = "neutral" THEN 15
    ELSE IF risk_profile = "conservative" THEN 17
    ELSE 15

\* _drawdown_threshold
DrawdownThreshold(risk_profile) ==
    IF risk_profile = "aggressive" THEN 8
    ELSE IF risk_profile = "neutral" THEN 6
    ELSE IF risk_profile = "conservative" THEN 5
    ELSE 6

PrefilterResult(triggered, action_hint, reasons, score) ==
    [triggered |-> triggered, action_hint |-> action_hint, reasons |-> reasons,
     score |-> score]

\* a score that counts every tag as 1.0
WeightOne(signal, weight) == IF signal THEN 10 ELSE 0

\* reasons.append(name) and score += weight under `if signal`
Tag(signal, name) == IF signal THEN <<name>> ELSE <<>>
Weight(signal, weight) == IF signal THEN weight ELSE 0
Count(signals) == Cardinality({i \in 1..Len(signals) : signals[i]})

\* prefilter_candidate after its two vetoes: the signals, the tags and the
\* result
PrefilterSignals(market, positive_news, negative_news, risk_profile) ==
    LET close_now == market.last_close_15m
        ma20 == market.ma20_15m
        vol_ratio == market.vol_ratio_15m
        vol_threshold == VolThreshold(risk_profile)
        buy_breakout == close_now > ma20 /\ close_now >= market.recent_high_32
                            /\ vol_ratio >= vol_threshold
        buy_reversal == market.rsi14_15m <= 30
                            /\ vol_ratio >= Max(12, vol_threshold - 3)
        buy_uptrend_pullback == market.daily_uptrend /\ close_now > ma20
                                    /\ vol_ratio >= 12
        buy_event == positive_news /\ vol_ratio >= 11
        sell_breakdown == close_now < ma20 /\ vol_ratio >= 11
        sell_drawdown == market.drawdown_32 >= DrawdownThreshold(risk_profile)
        sell_event == negative_news /\ close_now < ma20
        reasons ==
            Tag(buy_breakout, "buy_breakout") \o Tag(buy_reversal, "buy_reversal")
                \o Tag(buy_uptrend_pullback, "buy_uptrend_pullback")
                \o Tag(buy_event, "buy_event")
                \o Tag(sell_breakdown, "sell_breakdown")
                \o Tag(sell_drawdown, "sell_drawdown")
                \o Tag(sell_event, "sell_event")
        score ==
            Weight(buy_breakout, 20) + Weight(buy_reversal, 12)
                + Weight(buy_uptrend_pullback, 10) + Weight(buy_event, 10)
                + Weight(sell_breakdown, 20) + Weight(sell_drawdown, 13)
                + Weight(sell_event, 10)
        buy_score == Count(<<buy_breakout, buy_reversal, buy_uptrend_pullback,
                             buy_event>>)
        sell_score == Count(<<sell_breakdown, sell_drawdown, sell_event>>)
    IN  IF buy_score = 0 /\ sell_score = 0
        THEN PrefilterResult(FALSE, "hold", <<"no_signal">>, 0)
        ELSE PrefilterResult(TRUE, IF buy_score >= sell_score THEN "buy" ELSE "sell",
                             reasons, score)

\* a prefilter without its vetoes
PrefilterCandidateNoVeto(market, bars_15m, bars_daily, positive_news, negative_news, risk_profile) ==
    PrefilterSignals(market, positive_news, negative_news, risk_profile)

\* prefilter_candidate
PrefilterCandidate(market, bars_15m, bars_daily, positive_news, negative_news, risk_profile) ==
    IF bars_15m < 64 \/ bars_daily < 60
    THEN PrefilterResult(FALSE, "hold", <<"insufficient_data">>, 0)
    ELSE IF market.turnover_20d_avg < min_turnover_20d
    THEN PrefilterResult(FALSE, "hold", <<"low_turnover">>, 0)
    ELSE PrefilterSignals(market, positive_news, negative_news, risk_profile)

\* The inputs of a call of the prefilter: values on both sides of every
\* comparison it makes
MarketInputs ==
    [last_close_15m : {9, 10, 11}, ma20_15m : {10}, recent_high_32 : {10, 11},
     vol_ratio_15m : {10, 11, 12, 13, 14, 15, 17}, rsi14_15m : {30, 31},
     drawdown_32 : {4, 5, 6, 8}, daily_uptrend : BOOLEAN,
     turnover_20d_avg : {min_turnover_20d - 1, min_turnover_20d}]
PrefilterInputs ==
    [market : MarketInputs, bars_15m : {63, 64}, bars_daily : {59, 60},
     positive_news : BOOLEAN, negative_news : BOOLEAN,
     risk_profile : {"aggressive", "neutral", "conservative", "balanced"}]

\* a call of the prefilter that has not returned
PrefilterPending == PrefilterResult(FALSE, "", <<>>, 0)
PrefilterCall(input, result) ==
    [op |-> "prefilter_candidate", input |-> input, result |-> result]

InitPrefilter ==
    /\ InitWithCalls(MaxCalls) /\ connections = {}
    /\ \E input \in PrefilterInputs : last_call = PrefilterCall(input, PrefilterPending)

Prefilter ==
    /\ last_call.op = "prefilter_candidate"
    /\ last_call.result = PrefilterPending
    /\ last_call' =
          PrefilterCall(last_call.input,
              PrefilterCandidate(last_call.input.market, last_call.input.bars_15m,
                                 last_call.input.bars_daily,
                                 last_call.input.positive_news,
                                 last_call.input.negative_news,
                                 last_call.input.risk_profile))
    /\ UNCHANGED <<now, watchlist, preferences, status_by_client, manual_tasks,
                   discover_status_by_client, discover_tasks, tasks, scheduler,
                   escaped, stored, pipeline_vars>>

SpecPrefilter == InitPrefilter /\ [][Prefilter]_vars

----------------------------------------------------------------------------
(* The discovery scorer called on the outcomes of its comparisons *)

\* the inputs of a call of the scorer: the number of daily bars and of
\* 15-minute bars on both sides of the two minima, and every outcome of the
\* comparisons
ScorerInputs ==
    [closes_daily : {11, 12}, volume_15m : {23, 24},
     above_ma7 : BOOLEAN, ma7_over_ma20 : BOOLEAN, momentum_7d : BOOLEAN,
     near_7d_high : BOOLEAN, volume_expansion : BOOLEAN,
     turnover : {"ok", "mid", "low"},
     news_bias : {"positive", "negative", "even"}]

\* what the scorer reads of an input
ScorerSignal(input) ==
    [enough_data |-> ~(input.closes_daily < 12 \/ input.volume_15m < 24),
     above_ma7 |-> input.above_ma7, ma7_over_ma20 |-> input.ma7_over_ma20,
     momentum_7d |-> input.momentum_7d, near_7d_high |-> input.near_7d_high,
     volume_expansion |-> input.volume_expansion, turnover |-> input.turnover,
     news_bias |-> input.news_bias, news |-> 0]

\* a call of the scorer that has not returned
ScorerPending == [triggered |-> FALSE, score |-> 0, action_hint |-> "", reasons |-> <<>>]
ScorerCall(input, result) ==
    [op |-> "_score_discovery_signal", input |-> input, result |-> result]

InitScorer ==
    /\ InitWithCalls(MaxCalls) /\ connections = {}
    /\ \E input \in ScorerInputs : last_call = ScorerCall(input, ScorerPending)

Scorer ==
    /\ last_call.op = "_score_discovery_signal"
    /\ last_call.result = ScorerPending
    /\ last_call' = ScorerCall(last_call.input,
                               ScoreDiscoverySignal(ScorerSignal(last_call.input)))
    /\ UNCHANGED <<now, watchlist, preferences, status_by_client, manual_tasks,
                   discover_status_by_client, discover_tasks, tasks, scheduler,
                   escaped, stored, pipeline_vars>>

SpecScorer == InitScorer /\ [][Scorer]_vars

----------------------------------------------------------------------------
(* The reasoning collaborator: LlmClient.generate around _call_llm.  A     *)
(* call is [op, api_key, attempt, tries, outcomes, state, output, error]:  *)
(* the attempt of generate (1 | 2), the post of _call_llm in it (1..3),     *)
(* the transport outcomes so far, "posting" | "returned" | "raised", the    *)
(* value returned and the exception raised.                                *)

\* what one client.post can end with
TransportOutcomes ==
    {"network_error",        \* client.post raises
     "retry_status",         \* status 429, 500, 502, 503 or 504
     "error_status",         \* any other status raise_for_status refuses
     "body_not_json",        \* response.json() raises
     "no_choices",           \* a JSON object without the key choices
     "empty_choices",        \* choices is []
     "content_not_json",     \* the content of the message is no JSON text
     "schema_invalid",       \* the content is JSON that LlmOutput refuses
     "valid"}                \* the content validates as LlmOutput

NoOutput == [action |-> "", target_position_pct |-> 0, confidence |-> 0,
             market_features |-> None, news_citations |-> None]

\* _fallback_output: the context holds n_features market features and
\* n_news news items
FallbackOutput(n_features, n_news) ==
    [action |-> "hold", target_position_pct |-> 0, confidence |-> 10,
     market_features |-> Min(2, n_features), news_citations |-> Min(1, n_news)]

\* a _call_llm that posts again after any refused status
CallLlmPostRetriesErrorStatus(outcome) ==
    CASE outcome \in {"network_error", "retry_status", "error_status"} -> "retry"
      [] outcome = "body_not_json" -> "JSONDecodeError"
      [] outcome = "empty_choices" -> "IndexError"
      [] outcome \in {"no_choices", "schema_invalid"} -> "text_schema_invalid"
      [] outcome = "content_not_json" -> "text_not_json"
      [] outcome = "valid" -> "text_valid"

\* What _call_llm makes of the outcome of a post: "retry" (sleep and post
\* again), an exception that leaves it, or the text it returns, named by
\* what generate will find in it
CallLlmPost(outcome) ==
    CASE outcome \in {"network_error", "retry_status"} -> "retry"
      [] outcome = "error_status" -> "HTTPStatusError"
      [] outcome = "body_not_json" -> "JSONDecodeError"
      [] outcome = "empty_choices" -> "IndexError"
      [] outcome = "no_choices" -> "text_schema_invalid"     \* "{}"
      [] outcome = "content_not_json" -> "text_not_json"
      [] outcome = "schema_invalid" -> "text_schema_invalid"
      [] outcome = "valid" -> "text_valid"

LlmExceptions == {"HTTPStatusError", "JSONDecodeError", "IndexError"}

LlmCall(api_key, attempt, tries, outcomes, state, output, error) ==
    [op |-> "generate", api_key |-> api_key, attempt |-> attempt,
     tries |-> tries, outcomes |-> outcomes, state |-> state,
     output |-> output, error |-> error]

\* the news items in the context of the call
LlmContextNews == 1

InitLlm ==
    /\ InitWithCalls(MaxCalls) /\ connections = {}
    /\ \E api_key \in BOOLEAN :
          last_call = LlmCall(api_key, 1, 1, <<>>, "posting", NoOutput, NoError)

\* generate got `text` from _call_llm in the call `call`: json.loads and
\* model_validate, the second attempt, the fallback
GenerateText(call, text, out) ==
    IF text = "text_valid"
    THEN [call EXCEPT !.state = "returned", !.output = out]
    ELSE IF call.attempt = 2
    THEN [call EXCEPT !.state = "returned",
                      !.output = FallbackOutput(MarketFeatureCount, LlmContextNews)]
    ELSE [call EXCEPT !.attempt = 2, !.tries = 1]

\* Without an API key _call_llm returns "{}" at once, in both attempts
LlmNoKey ==
    /\ last_call.op = "generate" /\ last_call.state = "posting"
    /\ ~last_call.api_key
    /\ last_call' = GenerateText(GenerateText(last_call, "text_schema_invalid", NoOutput),
                                 "text_schema_invalid", NoOutput)
    /\ UNCHANGED <<now, watchlist, preferences, status_by_client, manual_tasks,
                   discover_status_by_client, discover_tasks, tasks, scheduler,
                   escaped, stored, pipeline_vars>>

\* One client.post ends with `outcome` (out: the object a valid content
\* holds); up to the next post, the return of generate or its exception
LlmPost(outcome, out) ==
    /\ last_call.op = "generate" /\ last_call.state = "posting"
    /\ last_call.api_key
    /\ LET call == [last_call EXCEPT !.outcomes = Append(@, outcome)]
           post == CallLlmPost(outcome)
       IN  last_call' =
               IF post = "retry"
               THEN IF call.tries < 3
                    THEN [call EXCEPT !.tries = @ + 1]
                    ELSE GenerateText(call, "text_schema_invalid", out)
               ELSE IF post \in LlmExceptions
               THEN [call EXCEPT !.state = "raised", !.error = post]
               ELSE GenerateText(call, post, out)
    /\ UNCHANGED <<now, watchlist, preferences, status_by_client, manual_tasks,
                   discover_status_by_client, discover_tasks, tasks, scheduler,
                   escaped, stored, pipeline_vars>>

NextLlm ==
    \/ LlmNoKey
    \/ \E outcome \in TransportOutcomes, out \in LlmOutputs : LlmPost(outcome, out)

SpecLlm == InitLlm /\ [][NextLlm]_vars

----------------------------------------------------------------------------
(* Finalization of what the reasoning collaborator returned, as a function *)
(* of the collaborator's output, the scorer's action hint and the context. *)
(* invalidate_conditions is the length of risk["invalidate_conditions"],   *)
(* None when risk has no such key.                                         *)

\* the hints the two scorers give to _finalize_recommendation
PrefilterHints ==
    {PrefilterCandidate(input.market, input.bars_15m, input.bars_daily,
                        input.positive_news, input.negative_news,
                        input.risk_profile).action_hint : input \in PrefilterInputs}

DiscoveryHints ==
    {ScoreDiscoverySignal(ScorerSignal(input)).action_hint : input \in ScorerInputs}

\* what the collaborator can return: LlmOutput takes any string as action
\* and any dict as evidence and as risk
CollaboratorOutputs ==
    [action : {"buy", "sell", "hold", "wait", "BUY", ""},
     target_position_pct : {0, 80}, confidence : {10, 80},
     market_features : {None, 0, 1, 4, 5},
     news_citations : {None, 0, 1, 4}]

FinalizeInputs ==
    [output : CollaboratorOutputs, invalidate_conditions : {None, 0, 1, 2},
     action_hint : PrefilterHints \cup DiscoveryHints,
     market_features : {0, 2, MarketFeatureCount}, news_items : {0, 3, 8}]

\* risk.setdefault("invalidate_conditions", ["signal_invalidated"])
FinalizeRisk(invalidate_conditions) ==
    IF invalidate_conditions = None THEN 1 ELSE invalidate_conditions

\* a finalization that has not returned
FinalizePending ==
    [recommendation |-> NoOutput, invalidate_conditions |-> None,
     rows |-> <<>>, items |-> <<>>]

FinalizeCall(input, result) ==
    [op |-> "_finalize_recommendation", input |-> input, result |-> result]

\* The finalized recommendation, its risk, and what the two callers make
\* of it after the guardrails: the row _process_candidate stores and the
\* item discover_stocks appends
Finalized(input) ==
    LET recommendation ==
            FinalizeRecommendation(input.output, input.action_hint,
                                   input.market_features, input.news_items)
        bounded == ApplyGuardrails(recommendation, "neutral")
    IN  [recommendation |-> recommendation,
         invalidate_conditions |-> FinalizeRisk(input.invalidate_conditions),
         rows |-> CreateRecommendation(<<>>, "c1", "s1", bounded, 0),
         items |-> <<DiscoverItem([symbol |-> "s1", score |-> TriggerScore,
                                   news |-> input.news_items], bounded)>>]

InitFinalize ==
    /\ InitWithCalls(MaxCalls) /\ connections = {}
    /\ \E input \in FinalizeInputs : last_call = FinalizeCall(input, FinalizePending)

Finalize ==
    /\ last_call.op = "_finalize_recommendation"
    /\ last_call.result = FinalizePending
    /\ last_call' = FinalizeCall(last_call.input, Finalized(last_call.input))
    /\ UNCHANGED <<now, watchlist, preferences, status_by_client, manual_tasks,
                   discover_status_by_client, discover_tasks, tasks, scheduler,
                   escaped, stored, pipeline_vars>>

SpecFinalize == InitFinalize /\ [][Finalize]_vars

----------------------------------------------------------------------------
(* The websocket endpoint, for one socket.  A frame the client sends is    *)
(* [frame, type, payload]: the frame is a JSON object, another JSON value  *)
(* ("array"), a text that is no JSON, or the disconnect; type is the value *)
(* of the key type ("<absent>", "<not_str>" or the string); payload is      *)
(* [kind, client_id, has_state, watchlist, risk_profile] with kind         *)
(* "absent" (no key payload), "not_dict" or "dict", client_id "" when the  *)
(* dict has no such key, has_state when it has watchlist and preferences.  *)
(* The handler is [op, state, client_id, received, message, sent]: "open"  *)
(* or "closed", the client_id of the last hello ("": None), the number of  *)
(* frames received, the last of them, and the replies sent.                *)

MaxFrames == 3

WsPayload(kind, client_id, has_state, watchlist_items, risk_profile) ==
    [kind |-> kind, client_id |-> client_id, has_state |-> has_state,
     watchlist |-> watchlist_items, risk_profile |-> risk_profile]

EmptyDict == WsPayload("dict", "", FALSE, <<>>, "")

WsPayloads ==
    {WsPayload("absent", "", FALSE, <<>>, ""),
     WsPayload("not_dict", "", FALSE, <<>>, ""),
     EmptyDict}
    \cup {WsPayload("dict", c, FALSE, <<>>, "") : c \in Clients}
    \cup {WsPayload("dict", c, TRUE, w, "neutral") :
              c \in Clients \cup {""}, w \in {<<>>, <<"s2">>}}

WsFrames ==
    [frame : {"object"},
     type : {"<absent>", "<not_str>", "ping", "client.hello",
             "client.sync_state", "other"},
     payload : WsPayloads]
    \cup [frame : {"array", "not_json", "disconnect"}, type : {"<absent>"},
          payload : {WsPayload("absent", "", FALSE, <<>>, "")}]

WsReply(type, code) == [type |-> type, code |-> code]

\* a WsEnvelope in which payload is required
WsEnvelopeValidatePayloadRequired(message) ==
    [valid |-> /\ message.frame = "object"
               /\ message.type \notin {"<absent>", "<not_str>"}
               /\ message.payload.kind = "dict",
     type |-> message.type, payload |-> message.payload]

\* WsEnvelope.model_validate: valid, or ValidationError
WsEnvelopeValidate(message) ==
    [valid |-> /\ message.frame = "object"
               /\ message.type \notin {"<absent>", "<not_str>"}
               /\ message.payload.kind # "not_dict",
     type |-> message.type,
     payload |-> IF message.payload.kind = "absent" THEN EmptyDict
                 ELSE message.payload]

\* ClientHelloPayload.model_validate and SyncStatePayload.model_validate
\* do not raise
ClientHelloValid(payload) == payload.client_id # ""
SyncStateValid(payload) == payload.client_id # "" /\ payload.has_state

\* registered: the client ids under which _connections holds the socket of
\* this handler; others: the ids under which it holds another socket.
\* connections is the set of the ids is_online answers True for
WsHandler(state, client_id, received, message, sent, registered, others) ==
    [op |-> "websocket_endpoint", state |-> state, client_id |-> client_id,
     received |-> received, message |-> message, sent |-> sent,
     registered |-> registered, others |-> others]

NoFrame ==
    [frame |-> "", type |-> "", payload |-> WsPayload("absent", "", FALSE, <<>>, "")]

InitWs ==
    /\ InitWithCalls(MaxCalls)
    /\ \E online \in SUBSET Clients :
          /\ connections = online
          /\ last_call = WsHandler("open", "", 0, NoFrame, <<>>, {}, online)

\* The handler leaves the loop (disconnect, or an exception nothing
\* catches): the finally clause
WsClose(message) ==
    /\ last_call' = [last_call EXCEPT !.state = "closed",
                                      !.received = @ + 1, !.message = message,
                                      !.registered = @ \ {last_call.client_id}]
    /\ connections' = last_call.others
                          \cup (last_call.registered \ {last_call.client_id})
    /\ UNCHANGED <<watchlist, preferences>>

\* The handler answers `replies` and waits for the next frame
WsAnswer(message, replies) ==
    last_call' = [last_call EXCEPT !.received = @ + 1, !.message = message,
                                   !.sent = @ \o replies]

\* One turn of the loop of websocket_endpoint on the frame `message`
WsReceive(message) ==
    /\ last_call.op = "websocket_endpoint" /\ last_call.state = "open"
    /\ last_call.received < MaxFrames
    /\ LET envelope == WsEnvelopeValidate(message)
           payload == envelope.payload
       IN  IF message.frame \in {"disconnect", "not_json"}
           THEN WsClose(message)
           ELSE IF ~envelope.valid
           THEN /\ WsAnswer(message,
                            <<WsReply("server.error", "invalid_envelope")>>)
                /\ UNCHANGED <<connections, watchlist, preferences>>
           ELSE IF envelope.type = "client.hello"
           THEN IF ClientHelloValid(payload)
                THEN /\ connections' = connections \cup {payload.client_id}
                     /\ last_call' =
                            [last_call EXCEPT
                                !.client_id = payload.client_id,
                                !.registered = @ \cup {payload.client_id},
                                !.received = @ + 1, !.message = message,
                                !.sent = Append(@, WsReply("server.hello.ack", "ok"))]
                     /\ UNCHANGED <<watchlist, preferences>>
                ELSE WsClose(message)
           ELSE IF envelope.type = "client.sync_state"
           THEN IF SyncStateValid(payload)
                THEN /\ watchlist' = [watchlist EXCEPT
                                         ![payload.client_id] = payload.watchlist]
                     /\ preferences' = [preferences EXCEPT
                                           ![payload.client_id] = payload.risk_profile]
                     /\ WsAnswer(message,
                                 <<WsReply("server.sync_state.ack", "ok")>>)
                     /\ UNCHANGED connections
                ELSE WsClose(message)
           ELSE IF envelope.type = "ping"
           THEN /\ WsAnswer(message, <<WsReply("pong", "")>>)
                /\ UNCHANGED <<connections, watchlist, preferences>>
           ELSE /\ WsAnswer(message, <<>>)
                /\ UNCHANGED <<connections, watchlist, preferences>>
    /\ UNCHANGED <<now, status_by_client, manual_tasks, discover_status_by_client,
                   discover_tasks, tasks, scheduler, escaped, stored,
                   recommendations, calls, events>>

NextWs == \E message \in WsFrames : WsReceive(message)

SpecWs == InitWs /\ [][NextWs]_vars

----------------------------------------------------------------------------
(* The news provider.  What a source answers to a query is an exception    *)
(* ("raises") or a list of items [title, well_formed, date, age, mentions]: *)
(* well_formed when the cleaned title has five characters and there is a   *)
(* url; date "parsed", "unparsed" (no date the parser reads) or "invalid"  *)
(* (a Chinese date with a month, day or hour no calendar has); age the     *)
(* hours from the parsed date to now; mentions "symbol", "name" or "none"  *)
(* for what title and snippet hold.  name_kind is "distinct", "symbol"    *)
(* (the name is the symbol) or "empty".  The call is                       *)
(* [op, name_kind, hours, source, query, fetch, articles, state, result]:   *)
(* fetch is how the last fetch ended ("raised" | "answered").              *)

NewsSources == <<"sina", "eastmoney", "qq">>

NoArticle == [source |-> "", title |-> "", age |-> 0, mentions |-> ""]

\* _build_queries: the symbol, and the name if it is another string
BuildQueries(name_kind) ==
    IF name_kind = "distinct" THEN <<"symbol", "name">> ELSE <<"symbol">>

\* _is_relevant that takes every item
IsRelevantAlways(item, name_kind) == TRUE

\* _is_relevant: symbol in hay or (name and name in hay)
IsRelevant(item, name_kind) ==
    \/ item.mentions = "symbol"
    \/ name_kind = "symbol" /\ item.mentions = "name"
    \/ name_kind = "distinct" /\ item.mentions = "name"

\* _normalize_item: the article, NoArticle for None.  An item without a
\* date the parser reads is stamped with the time of the call
NormalizeItem(item, source, name_kind, hours) ==
    IF ~item.well_formed THEN NoArticle
    ELSE IF item.date = "parsed" /\ item.age > hours THEN NoArticle
    ELSE IF ~IsRelevant(item, name_kind) THEN NoArticle
    ELSE [source |-> source, title |-> item.title,
          age |-> IF item.date = "parsed" THEN item.age ELSE 0,
          mentions |-> item.mentions]

\* _parse_published_at raises ValueError on a Chinese date that
\* datetime() refuses; _normalize_item reaches it after the title and url
RaisesInNormalize(item) == item.well_formed /\ item.date = "invalid"

RECURSIVE NormalizeAll(_, _, _, _)
NormalizeAll(items, source, name_kind, hours) ==
    IF items = <<>> THEN <<>>
    ELSE LET normalized == NormalizeItem(Head(items), source, name_kind, hours)
             rest == NormalizeAll(Tail(items), source, name_kind, hours)
         IN  IF normalized = NoArticle THEN rest ELSE <<normalized>> \o rest

\* _dedupe_news: the first item of every (source, title)
RECURSIVE DedupeNews(_)
DedupeNews(items) ==
    IF items = <<>> THEN <<>>
    ELSE LET front == DedupeNews(SubSeq(items, 1, Len(items) - 1))
             last == items[Len(items)]
         IN  IF \E i \in 1..Len(front) :
                    front[i].source = last.source /\ front[i].title = last.title
             THEN front ELSE Append(front, last)

NewsItem(title, well_formed, date, age, mentions) ==
    [title |-> title, well_formed |-> well_formed, date |-> date, age |-> age,
     mentions |-> mentions]

NewsHours == {24, 72}

\* the items a source can answer with, for a call with `hours`
NewsItems(hours) ==
    {NewsItem("t1", TRUE, "parsed", 0, "symbol"),
     NewsItem("t1", TRUE, "unparsed", 0, "name"),
     NewsItem("t2", TRUE, "parsed", hours, "symbol"),
     NewsItem("t2", TRUE, "parsed", hours + 1, "symbol"),
     NewsItem("t2", TRUE, "parsed", 0, "none"),
     NewsItem("t1", FALSE, "parsed", 0, "symbol"),
     NewsItem("t2", TRUE, "invalid", 0, "symbol")}

\* what _fetch_from_source answers: a list of items; "raises" is a list
\* the model never reads
FetchResults(hours) ==
    {<<>>} \cup {<<item>> : item \in NewsItems(hours)}
           \cup {<<item, item>> : item \in {i \in NewsItems(hours) : i.date = "unparsed"}}

NewsCall(name_kind, hours, source, query, articles, state, result) ==
    [op |-> "get_recent_news", name_kind |-> name_kind, hours |-> hours,
     source |-> source, query |-> query, fetch |-> "", articles |-> articles,
     state |-> state, result |-> result]

InitNews ==
    /\ InitWithCalls(MaxCalls) /\ connections = {}
    /\ \E name_kind \in {"distinct", "symbol", "empty"}, hours \in NewsHours :
          last_call = NewsCall(name_kind, hours, 1, 1, <<>>, "fetching", <<>>)

\* The call after the fetch for (source, query) with the articles so far:
\* the next fetch, or the return of the deduplicated list
NewsAdvance(call, articles) ==
    IF call.query < Len(BuildQueries(call.name_kind))
    THEN [call EXCEPT !.query = @ + 1, !.articles = articles]
    ELSE IF call.source < Len(NewsSources)
    THEN [call EXCEPT !.source = @ + 1, !.query = 1, !.articles = articles]
    ELSE [call EXCEPT !.articles = articles, !.state = "returned",
                      !.result = DedupeNews(articles)]

\* _fetch_from_source for the current source and query raised (raises) or
\* answered `items`
NewsFetch(raises, items) ==
    /\ last_call.op = "get_recent_news" /\ last_call.state = "fetching"
    /\ LET call == [last_call EXCEPT
                       !.fetch = IF raises THEN "raised" ELSE "answered"]
       IN  last_call' =
               IF raises THEN NewsAdvance(call, call.articles)
               ELSE IF \E i \in 1..Len(items) : RaisesInNormalize(items[i])
               THEN [call EXCEPT !.state = "raised"]
               ELSE NewsAdvance(call,
                        call.articles
                            \o NormalizeAll(items, NewsSources[call.source],
                                            call.name_kind, call.hours))
    /\ UNCHANGED <<now, watchlist, preferences, status_by_client, manual_tasks,
                   discover_status_by_client, discover_tasks, tasks, scheduler,
                   escaped, stored, pipeline_vars>>

NextNews ==
    \E raises \in BOOLEAN, items \in FetchResults(last_call.hours) :
        NewsFetch(raises, items)

SpecNews == InitNews /\ [][NextNews]_vars

----------------------------------------------------------------------------
\* Two scans of one client at a time (a manual scan beside the scheduler's):
\* one more call of the pipeline may run, each for one of two symbols with
\* the hint buy, and the reasoning collaborator answers with the hint's action or
\* with none of its own; the client is offline
RaceCalls == MaxCalls + 1
RaceLlmOutputs ==
    { [action |-> a, target_position_pct |-> 10, confidence |-> 80,
       market_features |-> None, news_citations |-> None] :
         a \in {"buy", "wait"} }

RaceSymbols == {"s1", "s2"}

InitRace == InitWithCalls(RaceCalls) /\ last_call = NoCall /\ connections = {}

NextRace ==
    \/ Tick
    \/ \E k \in 1..RaceCalls, c \in PipelineClients, symbol \in RaceSymbols :
          ProcessStart(k, c, symbol, "buy", 1)
    \/ \E k \in 1..RaceCalls, failed \in BOOLEAN, out \in RaceLlmOutputs :
          ProcessGenerated(k, failed, out)

SpecRace == InitRace /\ [][NextRace]_vars

----------------------------------------------------------------------------
(* Properties of the triggers and the tasks *)

\* the tasks of a job type and a client that have not finished
Unfinished(kind, c) ==
    {t \in TaskIds : tasks[t].kind = kind /\ tasks[t].client = c
                        /\ tasks[t].pc # "free"}

\* What a trigger `op` of job type `kind` for client c did, when the last
\* step was one: with an unfinished task it answered already_running with
\* `message` and created nothing, else it created exactly one task
TriggerRule(op, kind, c, message) ==
    (last_call'.op = op /\ last_call'.client = c) =>
        IF Unfinished(kind, c) # {}
        THEN /\ last_call'.state = "already_running"
             /\ last_call'.message = message
             /\ tasks' = tasks
        ELSE /\ last_call'.state = "started"
             /\ Cardinality(Unfinished(kind, c)') = 1
             /\ \A t \in TaskIds : t \notin Unfinished(kind, c)' => tasks'[t] = tasks[t]

\* C1 (as amended): a trigger for a client with an unfinished task of the
\* same job type returns already_running and creates no task; its message is
\* the message of the stored status, or the default text "... is running."
\* when no status is stored for the client yet.  Otherwise it creates exactly
\* one task and returns started.  Tasks of the other job type play no part.
C1_TriggerDedup ==
    [][\A c \in Clients :
          /\ TriggerRule("trigger_scan", "scan", c,
                 IF c \in DOMAIN status_by_client
                 THEN status_by_client[c].message
                 ELSE "AI selection is running.")
          /\ TriggerRule("trigger_discovery", "discover", c,
                 IF c \in DOMAIN discover_status_by_client
                 THEN discover_status_by_client[c].message
                 ELSE "Discovery task is running.")]_vars

\* C1 as stated: the already_running answer carries the client's current
\* status message (the message a status read reports)
C1_TriggerDedupCurrentMessage ==
    [][\A c \in Clients :
          /\ TriggerRule("trigger_scan", "scan", c, ScanStatusOf(c).message)
          /\ TriggerRule("trigger_discovery", "discover", c,
                         DiscoveryStatusOf(c).message)]_vars

\* a second scan trigger was answered already_running with the default text
\* while a discovery task of the same client was unfinished
C1_Witness ==
    \E c \in Clients :
        /\ last_call = Response("trigger_scan", c, "already_running",
                                "AI selection is running.")
        /\ Unfinished("scan", c) # {}
        /\ Unfinished("discover", c) # {}

\* the scan pipelines of a client that are under way: entered and suspended
ScanPipelines(c) ==
    Cardinality({t \in TaskIds : tasks[t].kind = "scan" /\ tasks[t].client = c
                                    /\ tasks[t].pc = "collecting"})
    + (IF scheduler.pc = "collecting" /\ Head(scheduler.rest) = c THEN 1 ELSE 0)

C3_EmptyWatchlistScan ==
    [][\A t \in TaskIds, c \in Clients :
          (/\ tasks[t].kind = "scan" /\ tasks[t].client = c
           /\ tasks[t].pc = "pending" /\ tasks'[t].pc = "free"
           /\ watchlist[c] = <<>>
           /\ ScanStatusOf(c).state = "idle")
          => /\ StatesOf(stored', "scan", c) = <<"running", "succeeded">>
             /\ ScanStatusOf(c)'.state = "succeeded"
             /\ ScanStatusOf(c)'.message = "Watchlist is empty."
             /\ ScanStatusOf(c)'.error = NoError
             /\ ScanStatusOf(c)'.created_recommendations = 0]_vars

AllowedChange(from, to) ==
    \/ from = to
    \/ <<from, to>> \in {<<"idle", "running">>, <<"running", "succeeded">>,
                         <<"running", "failed">>, <<"succeeded", "running">>,
                         <<"failed", "running">>}

\* every store of a step changes the state along an allowed edge
AllowedChain(from, states) ==
    \A i \in 1..Len(states) :
        AllowedChange(IF i = 1 THEN from ELSE states[i - 1], states[i])

\* C4: per client and job type the stored state changes only along
\* idle -> running, running -> succeeded, running -> failed and
\* succeeded/failed -> running
C4_StatusTransitions ==
    [][\A c \in Clients :
          /\ AllowedChain(ScanStatusOf(c).state, StatesOf(stored', "scan", c))
          /\ AllowedChain(DiscoveryStatusOf(c).state,
                          StatesOf(stored', "discover", c))]_vars

\* one step of task t
TaskStep(t) ==
    \/ RunManualScan(t)
    \/ DiscStart(t)
    \/ \E n \in 0..MaxUniverse : DiscUniverse(t, n)
    \/ \E i \in 1..MaxUniverse, failed \in BOOLEAN, f \in EngineSignals :
          DiscEvaluate(t, i, failed, f)
    \/ DiscTimeout(t)
    \/ DiscGatherDone(t)
    \/ \E failed \in BOOLEAN, out \in EngineLlmOutputs : DiscReason(t, failed, out)

\* The engine when the event loop runs every task that is ready and every
\* collaborator call returns or raises
SpecFair == Spec /\ \A t \in TaskIds : WF_vars(TaskStep(t))

\* the guards of the steps of task t: TaskStep(t) is enabled
Ready(t) ==
    \/ At(t, "scan", "pending")
    \/ At(t, "discover", "pending")
    \/ At(t, "discover", "loading_universe")
    \/ \E i \in 1..MaxUniverse, failed \in BOOLEAN : CanEvaluate(t, i, failed)
    \/ CanTimeout(t)
    \/ CanGatherDone(t)
    \/ At(t, "discover", "reasoning")

\* Ready states when a task has a step to take
ReadyIsEnabled == \A t \in TaskIds : Ready(t) <=> ENABLED TaskStep(t)

StatusOfJob(kind, c) ==
    IF kind = "scan" THEN ScanStatusOf(c) ELSE DiscoveryStatusOf(c)
TaskMapOfJob(kind) == IF kind = "scan" THEN manual_tasks ELSE discover_tasks

\* the step in which task t ends
TaskEnds(t) == tasks[t].pc # "free" /\ tasks'[t].pc = "free"

\* the evaluations of a collecting task that have not ended
Remaining(t) ==
    (1..Len(tasks[t].raw)) \ (tasks[t].finished \cup tasks[t].dropped)

\* the most symbols a task can load: from the provider or from a watchlist
MostLoaded ==
    LET lengths == {MaxUniverse} \cup {Len(watchlist[c]) : c \in Clients}
    IN  CHOOSE n \in lengths : \A m \in lengths : n >= m

\* a bound on the steps task t has left
Rank(t) ==
    CASE tasks[t].pc = "free" -> 0
      [] tasks[t].pc = "reasoning" -> 1 + Len(tasks[t].shortlist) - tasks[t].idx
      [] tasks[t].pc = "collecting" ->
             Len(tasks[t].raw) + 1 + 2 * Cardinality(Remaining(t))
                 + (IF tasks[t].cancelled THEN 0 ELSE 1)
      [] tasks[t].pc = "loading_universe" -> 3 * MostLoaded + 3
      [] OTHER -> 3 * MostLoaded + 4

\* C5: every task a trigger started ends when the loop keeps running it and
\* its collaborators answer (an unfinished task always has a step to take,
\* and every step of a task lowers the bound on the steps it has left); when
\* it ends the client's status is succeeded or failed, the task has removed
\* itself and nothing else from the task maps, and a trigger made when no
\* task is unfinished is answered started
C5_TasksEnd ==
    /\ [](\A t \in TaskIds : tasks[t].pc # "free" => Ready(t))
    /\ [][\A t \in TaskIds :
             (tasks[t].pc # "free" /\ tasks'[t] # tasks[t]) =>
                 Rank(t)' >= 0 /\ Rank(t)' < Rank(t)]_vars
    /\ [][\A t \in TaskIds, c \in Clients, kind \in {"scan", "discover"} :
             (tasks[t].kind = kind /\ tasks[t].client = c /\ TaskEnds(t)) =>
                 /\ StatusOfJob(kind, c)'.state \in {"succeeded", "failed"}
                 /\ TaskMapOfJob(kind)[c] = t
                 /\ TaskMapOfJob(kind)' = [TaskMapOfJob(kind) EXCEPT ![c] = NoTask]
                 /\ \A other \in {"scan", "discover"} \ {kind} :
                        TaskMapOfJob(other)' = TaskMapOfJob(other)]_vars
    /\ [](\A c \in Clients, kind \in {"scan", "discover"} :
             Unfinished(kind, c) = {} => StatusOfJob(kind, c).state # "running")
    /\ [][\A c \in Clients :
             /\ (last_call'.op = "trigger_scan" /\ last_call'.client = c
                    /\ Unfinished("scan", c) = {}) => last_call'.state = "started"
             /\ (last_call'.op = "trigger_discovery" /\ last_call'.client = c
                    /\ Unfinished("discover", c) = {}) => last_call'.state = "started"]_vars

\* a trigger was answered started for a client whose earlier task of that job
\* type has ended and left a terminal status
C5_Witness ==
    \E c \in Clients :
        /\ last_call = Response("trigger_discovery", c, "started",
                                "Discovery task started.")
        /\ DiscoveryStatusOf(c).state \in {"succeeded", "failed"}
        /\ discover_tasks[c] # NoTask

\* every status that can be read, and every status the last step stored
Statuses ==
    {ScanStatusOf(c) : c \in Clients} \cup {DiscoveryStatusOf(c) : c \in Clients}
        \cup {stored[i].status : i \in 1..Len(stored)}

\* C6: in every scan status and discovery status, error is non-null if and
\* only if state = failed
C6_ErrorIffFailed ==
    \A status \in Statuses : (status.error # NoError) <=> (status.state = "failed")

\* a failed discovery status carries its error, and a scan's running update
\* has cleared the error of the failed scan before it
C6_Witness ==
    /\ \E c \in Clients : /\ DiscoveryStatusOf(c).state = "failed"
                          /\ DiscoveryStatusOf(c).error = DbError
    /\ \E i \in 1..Len(stored) : /\ stored[i].job = "scan"
                                 /\ stored[i].status.state = "running"
                                 /\ stored[i].status.error = NoError

ProgressInputs == {0 - 1, 0, 50, 99, 100, 101}

\* C7: a running update stores progress clamped into [0, 99] and clears
\* error and finished_at; progress is 100 exactly in the states succeeded and
\* failed
C7_RunningProgress ==
    /\ \A status \in Statuses :
          /\ status.state = "running" =>
                 /\ status.progress \in 0..99
                 /\ status.error = NoError
                 /\ status.finished_at = None
          /\ (status.progress = 100) <=> (status.state \in {"succeeded", "failed"})
    /\ \A p \in ProgressInputs :
          /\ ClampProgress(p) \in 0..99
          /\ p \in 0..99 => ClampProgress(p) = p

\* a discovery is running for a client whose failed scan was started again:
\* the scan's running update cleared finished_at
C7_Witness ==
    /\ \E c \in Clients : DiscoveryStatusOf(c).state = "running"
    /\ \E i \in 1..Len(stored) : /\ stored[i].job = "scan"
                                 /\ stored[i].status.state = "running"
                                 /\ stored[i].status.finished_at = None
                                 /\ stored[i].status.started_at # None

\* the text of the exceptions the jobs raise
ExceptionTexts == {AttrErrorItems, DbError}

\* C8: no exception of a manually triggered job leaves its task or reaches a
\* caller of a trigger or of a status read; a failed job shows as state
\* failed with the exception text in error
C8_FailuresStayInStatus ==
    /\ escaped = {}
    /\ last_call.op \in {"trigger_scan", "trigger_discovery"} =>
           last_call.state \in {"started", "already_running"}
    /\ last_call.op \in {"get_scan_status", "get_discovery_status"} =>
           last_call.state \in {"idle", "running", "succeeded", "failed"}
    /\ \A c \in Clients, kind \in {"scan", "discover"} :
           StatusOfJob(kind, c).state = "failed" =>
               StatusOfJob(kind, c).error \in ExceptionTexts

\* a status read reports the failure of a manual scan
C8_Witness ==
    /\ last_call.op = "get_scan_status"
    /\ last_call.state = "failed"
    /\ ScanStatusOf(last_call.client).error = AttrErrorItems
    /\ manual_tasks[last_call.client] = NoTask

----------------------------------------------------------------------------
(* Properties of the candidate pipeline *)

\* the row the step added to the recommendations table
RowAdded == Len(recommendations') = Len(recommendations) + 1
NewRow == recommendations'[Len(recommendations')]

\* C9: while the latest recommendation of a client and a symbol has action A
\* and is younger than the cooldown window, processing a candidate for the
\* symbol persists no new recommendation with action A
C9_CooldownBlocksSameAction ==
    [][RowAdded =>
          LET last == GetLastRecommendation(recommendations, NewRow.client,
                                            NewRow.symbol)
          IN  ~(/\ last # NoRec
                /\ last.action = NewRow.action
                /\ now - last.created_at < cooldown_minutes)]_vars

\* the inputs of the reversal check: no previous recommendation or one of
\* each action, each new action, confidences around 0.75
ReversalLasts ==
    {NoRec} \cup {[NoRec EXCEPT !.id = 1, !.client = "c1", !.symbol = "s1",
                                !.action = a, !.created_at = 0] :
                     a \in {"buy", "sell", "hold"}}
ReversalConfidences == {0, 74, 75, 76, 100}

\* what the reversal rule rejects: a buy after a sell or a sell after a buy
\* with a confidence below 0.75
ReversalRejected(last, action, confidence) ==
    /\ last # NoRec
    /\ last.action \in {"buy", "sell"} /\ action \in {"buy", "sell"}
    /\ last.action # action
    /\ confidence < 75

\* C10: is_reversal_allowed rejects exactly a buy <-> sell change with a
\* confidence below 0.75, and the pipeline persists no such change of the
\* last recommendation the call read
C10_ReversalRule ==
    [][/\ \A last \in ReversalLasts, action \in {"buy", "sell", "hold"},
             confidence \in ReversalConfidences :
             IsReversalAllowed(last, action, confidence)
                 <=> ~ReversalRejected(last, action, confidence)
       /\ \A k \in 1..MaxCalls :
             (calls[k].pc = "generate" /\ calls'[k] # calls[k] /\ RowAdded) =>
                 ~ReversalRejected(calls[k].last_rec, NewRow.action,
                                   NewRow.confidence)]_vars

\* a sell with confidence 0.75 was persisted after a buy, and the event of
\* the new row was sent
C10_Witness ==
    /\ \E i \in 1..Len(recommendations) - 1 :
          /\ recommendations[i].action = "buy"
          /\ recommendations[i + 1].action = "sell"
          /\ recommendations[i + 1].confidence = 75
    /\ last_call.op = "process_candidate" /\ last_call.state = "True"

----------------------------------------------------------------------------
(* Properties of the gates: evidence and position cap *)

RiskProfiles == {"aggressive", "neutral", "conservative", "balanced"}

\* the citations a recommendation holds: market features plus news
CitationCount(recommendation) ==
    (IF recommendation.market_features = None THEN 0
     ELSE recommendation.market_features)
    + (IF recommendation.news_citations = None THEN 0
       ELSE recommendation.news_citations)

\* what a row or an output item shows of a recommendation
Shown(r) == <<r.action, r.confidence, r.target_position_pct>>

\* the candidates of the discovery loop: one per signal the scorer can find
DiscoveryCandidates ==
    { [symbol |-> "s1", score |-> ScoreDiscoverySignal(f).score,
       action_hint |-> ScoreDiscoverySignal(f).action_hint, news |-> f.news] :
         f \in SignalInputs }

\* the reasoning outputs whose finalized evidence is below the minimum
ThinOutputs(outputs, action_hint, news, risk_profile) ==
    {out \in outputs :
        CitationCount(ReasonedRecommendation(out, action_hint, news, risk_profile))
            < evidence_min_items}

\* the body of the discovery loop leaves its output list as it is for every
\* reasoning output whose finalized evidence is below the minimum
DiscoveryLoopDropsThin ==
    \A candidate \in DiscoveryCandidates, risk_profile \in RiskProfiles :
        \A out \in ThinOutputs(LlmOutputs \cup PipelineLlmOutputs,
                               candidate.action_hint, candidate.news,
                               risk_profile) :
            \A output \in {<<>>, <<DiscoverItem(candidate, out)>>} :
                DiscOutput(output, candidate, FALSE, out, risk_profile) = output

\* C11: a candidate whose finalized evidence holds fewer citations than the
\* configured minimum gives no persisted recommendation in the scan pipeline
\* (the row a call adds never shows the action, confidence and position of
\* such a reasoning output; these tell the outputs with too little evidence
\* from the others) and no output item in the discovery loop, whatever its
\* action and confidence
C11_EvidenceGate ==
    [][/\ \A k \in DOMAIN calls :
             (calls[k].pc = "generate" /\ calls'[k] # calls[k] /\ RowAdded) =>
                 LET thin == ThinOutputs(PipelineLlmOutputs, calls[k].action_hint,
                                         calls[k].news, calls[k].risk_profile)
                     Row(out) == Shown(ReasonedRecommendation(out,
                                     calls[k].action_hint, calls[k].news,
                                     calls[k].risk_profile))
                 IN  /\ \A out \in thin : Shown(NewRow) # Row(out)
                     /\ \A out \in thin, other \in PipelineLlmOutputs \ thin :
                            Row(out) # Row(other)
       /\ DiscoveryLoopDropsThin]_vars

\* a candidate was dropped for its evidence: with no recommendation in the
\* table neither the cooldown nor the reversal gate can have dropped it
C11_Witness ==
    /\ last_call = Response("process_candidate", "c1", "False", "s1")
    /\ recommendations = <<>>
    /\ ThinOutputs(PipelineLlmOutputs, "buy", 1, "conservative") # {}

\* the items a discovery holds: in the output list of a task under way and
\* in the stored status
DiscoveryItems ==
    UNION {{tasks[t].output[i] : i \in 1..Len(tasks[t].output)} : t \in TaskIds}
    \cup UNION {{discover_status_by_client[c].items[i] :
                    i \in 1..Len(discover_status_by_client[c].items)} :
                c \in DOMAIN discover_status_by_client}

\* the engine's side of C11: no discovery item shows a reasoning output whose
\* finalized evidence is below the minimum
DiscoveryItemsHaveEvidence ==
    \A item \in DiscoveryItems, candidate \in DiscoveryCandidates,
       risk_profile \in RiskProfiles :
        \A out \in ThinOutputs(EngineLlmOutputs, candidate.action_hint,
                               candidate.news, risk_profile) :
            Shown(item) # Shown(ReasonedRecommendation(out, candidate.action_hint,
                                    candidate.news, risk_profile))

\* the ceiling the settings give a risk profile by default
ClaimedCap(risk_profile) ==
    IF risk_profile = "aggressive" THEN 50
    ELSE IF risk_profile = "conservative" THEN 20
    ELSE 35

\* the risk profile the engine reads for a client
RiskProfileOf(c) == IF preferences[c] = "none" THEN "neutral" ELSE preferences[c]

\* percentages a reasoning step can return: negative, inside every cap, just
\* above each cap, above 100
PositionInputs == {0 - 5, 0, 10, 20, 21, 35, 36, 50, 51, 100, 150}

PositionOutputs ==
    { [action |-> "buy", target_position_pct |-> pct, confidence |-> 80,
       market_features |-> None, news_citations |-> None] :
         pct \in PositionInputs }

\* apply_guardrails on every position input and risk profile
GuardrailsWithinCap ==
    \A out \in PositionOutputs, risk_profile \in RiskProfiles :
        ApplyGuardrails(out, risk_profile).target_position_pct
            \in 0..ClaimedCap(risk_profile)

\* the item the body of the discovery loop puts out for every position
\* input, risk profile and candidate
DiscoveryLoopWithinCap ==
    \A out \in PositionOutputs, risk_profile \in RiskProfiles,
       candidate \in DiscoveryCandidates :
        LET output == DiscOutput(<<>>, candidate, FALSE, out, risk_profile)
        IN  /\ Len(output) = 1
            /\ output[1].target_position_pct \in 0..ClaimedCap(risk_profile)

\* C12: after apply_guardrails the target position lies in [0, cap] with cap
\* 50 for aggressive, 20 for conservative and 35 for every other profile, for
\* negative and above-100 inputs too; every persisted recommendation and
\* every item the discovery loop puts out lies within the cap of the
\* client's risk profile
C12_PositionCap ==
    /\ GuardrailsWithinCap
    /\ \A i \in 1..Len(recommendations) :
          recommendations[i].target_position_pct
              \in 0..ClaimedCap(RiskProfileOf(recommendations[i].client))
    /\ DiscoveryLoopWithinCap

\* a recommendation was persisted at the cap of its conservative client: the
\* reasoning step had asked for more
C12_Witness ==
    \E i \in 1..Len(recommendations) :
        /\ RiskProfileOf(recommendations[i].client) = "conservative"
        /\ recommendations[i].target_position_pct = 20
        /\ \E out \in PipelineLlmOutputs : out.target_position_pct > 20

\* the engine's side of C12: every discovery item lies within the cap of the
\* risk profile of the client of its task or status
DiscoveryItemsWithinCap ==
    /\ \A t \in TaskIds : \A i \in 1..Len(tasks[t].output) :
          tasks[t].output[i].target_position_pct
              \in 0..ClaimedCap(tasks[t].risk_profile)
    /\ \A c \in DOMAIN discover_status_by_client :
          \A i \in 1..Len(discover_status_by_client[c].items) :
              discover_status_by_client[c].items[i].target_position_pct
                  \in 0..ClaimedCap(RiskProfileOf(c))

----------------------------------------------------------------------------
(* Properties of the order of the candidate pipeline *)

\* the cooldown gate as the pipeline applies it: on the prefilter's hint,
\* against the last recommendation the call read
CooldownPassed(last, action_hint, t) ==
    \/ last = NoRec
    \/ last.action # action_hint
    \/ t - last.created_at >= cooldown_minutes

\* the call k takes the step
CallSteps(k) == calls'[k] # calls[k]

\* C13: a row is created only by a call whose candidate passed the cooldown
\* gate (on its hint), the reversal gate and the evidence gate, for the
\* call's client and symbol and with the position within the cap; the event
\* of a recommendation is sent only by a call that has created the row, for
\* this row, and the call goes on to send only if the client is online when
\* the row is created; a call that drops its candidate (returns False or
\* raises) creates no row and sends no event
C13_PersistThenPush ==
    [][\A k \in DOMAIN calls : CallSteps(k) =>
          /\ recommendations' # recommendations =>
                /\ calls[k].pc = "generate" /\ RowAdded
                /\ SubSeq(recommendations', 1, Len(recommendations)) = recommendations
                /\ NewRow.client = calls[k].client /\ NewRow.symbol = calls[k].symbol
                /\ NewRow.id = Len(recommendations') /\ NewRow.created_at = now
                /\ CooldownPassed(calls[k].last_rec, calls[k].action_hint, now)
                /\ ~ReversalRejected(calls[k].last_rec, NewRow.action,
                                     NewRow.confidence)
                /\ \A out \in ThinOutputs(PipelineLlmOutputs, calls[k].action_hint,
                                          calls[k].news, calls[k].risk_profile) :
                       Shown(NewRow) # Shown(ReasonedRecommendation(out,
                                             calls[k].action_hint, calls[k].news,
                                             calls[k].risk_profile))
                /\ NewRow.target_position_pct
                       \in 0..ClaimedCap(RiskProfileOf(NewRow.client))
                /\ (calls'[k].pc = "sending") <=> (calls[k].client \in connections)
          /\ calls'[k].pc = "sending" =>
                /\ recommendations' # recommendations
                /\ calls'[k].row = NewRow.id
          /\ events' # events =>
                /\ calls[k].pc = "sending"
                /\ calls[k].row \in 1..Len(recommendations)
                /\ recommendations' = recommendations
                /\ events' = Append(events,
                       [client |-> recommendations[calls[k].row].client,
                        type |-> "server.recommendation.created",
                        id |-> calls[k].row])
                /\ \A i \in 1..Len(events) : events[i].id # calls[k].row
          /\ (last_call'.op = "process_candidate"
                 /\ last_call'.state \in {"False", "raised"}) =>
                /\ calls[k].pc \in {"free", "generate"}
                /\ recommendations' = recommendations
                /\ events' = events]_vars

\* the event of the first recommendation was sent after its row was created,
\* and the socket failed on the event of the second
C13_Witness ==
    /\ Len(recommendations) = 2
    /\ Len(events) = 1 /\ events[1].id = 1
    /\ connections = {}
    /\ last_call = Response("process_candidate", "c1", "True", "s1")

----------------------------------------------------------------------------
(* Properties of the failure handling *)

\* C14: when the scan of one client fails in scan_all_clients, the client's
\* status is failed and the remaining client ids are still scanned: a run of
\* the scheduler's job scans every client id the repository lists
C14_FailureKeepsLoopGoing ==
    [][last_call'.op = "scan_job" =>
          \A c \in Clients :
              LET ids == GetAllClientIds(watchlist, preferences)
                  states == StatesOf(stored', "scan", c)
              IN  (\E i \in 1..Len(ids) : ids[i] = c) =>
                      /\ states # <<>>
                      /\ states[Len(states)] = "failed" =>
                             ScanStatusOf(c)'.state = "failed"]_vars

\* C15: in a scan an exception while reasoning for one symbol drops only
\* that symbol: the candidate's call ends as a dropped candidate and raises
\* nothing into _run_candidate and the gather of scan_one_client, whose
\* except clause would end the scan in state failed
C15_SymbolFailureDropsSymbol ==
    [][\A k \in DOMAIN calls :
          (CallSteps(k) /\ last_call'.op = "process_candidate") =>
              last_call'.state \in {"True", "False"}]_vars


IsPrefixOf(a, b) == Len(a) <= Len(b) /\ SubSeq(b, 1, Len(a)) = a

Elements(seq) == {seq[i] : i \in 1..Len(seq)}

\* C16: in discovery the end of one evaluation by an exception or a per-call
\* timeout only drops that symbol, and the overall timeout of the fan-out lets
\* the job go on: no step of the collecting stage stores state failed or ends
\* the job as failed, the candidates scored so far are kept, and when the
\* gather is over the scored candidates make the shortlist (up to its cap),
\* after which the job no longer fails either
C16_DiscoveryFailuresDropSymbol ==
    [][\A t \in TaskIds : \A c \in Clients :
          (tasks[t].kind = "discover" /\ tasks[t].client = c
              /\ tasks[t].pc \in {"collecting", "reasoning"}) =>
            /\ DiscoveryStatusOf(c)'.state # "failed"
            /\ \A i \in 1..Len(stored') :
                  (stored'[i].job = "discover" /\ stored'[i].client = c) =>
                      stored'[i].status.state # "failed"
            /\ tasks'[t].kind = "free" => DiscoveryStatusOf(c)'.state = "succeeded"
            /\ (tasks[t].pc = "collecting" /\ tasks'[t].pc = "collecting") =>
                  /\ IsPrefixOf(tasks[t].scored, tasks'[t].scored)
                  /\ IsPrefixOf(tasks[t].backup, tasks'[t].backup)
            /\ (tasks[t].pc = "collecting" /\ tasks[t].scored # <<>>
                  /\ tasks'[t].pc # "collecting") =>
                  /\ tasks'[t].pc = "reasoning"
                  /\ tasks'[t].shortlist # <<>>
                  /\ Elements(tasks'[t].shortlist) \subseteq Elements(tasks[t].scored)
                  /\ Len(tasks'[t].shortlist) =
                         Min(Len(tasks[t].scored), 2 * tasks[t].limit)]_vars

\* the overall timeout expired after one symbol was scored, the evaluation in
\* flight ended by its cancellation, and the scored symbol is the shortlist
C16_Witness ==
    \E t \in TaskIds :
        /\ tasks[t].kind = "discover" /\ tasks[t].pc = "reasoning"
        /\ tasks[t].cancelled
        /\ tasks[t].finished = {1, 2}
        /\ Len(tasks[t].scored) = 1
        /\ tasks[t].shortlist = tasks[t].scored


----------------------------------------------------------------------------
(* Properties of concurrent calls of the pipeline *)

\* cooldown_key of a row: f"{symbol}:{action}"
CooldownKey(row) == <<row.symbol, row.action>>

\* two rows of one client with the same cooldown_key, the later one created
\* inside the cooldown window of the earlier
SameWindow(a, b) ==
    /\ a.client = b.client /\ CooldownKey(a) = CooldownKey(b)
    /\ a.id < b.id /\ b.created_at - a.created_at < cooldown_minutes

\* C17: the cooldown check and the insert are not atomic: a call inserts on
\* the strength of the row it read at its entry, so a row that lands inside
\* the cooldown window of an earlier row with the same cooldown_key comes
\* from a call whose check saw the table before that earlier row was
\* inserted by a concurrent call (the witness is the interleaving in which
\* this happens)
C17_CheckThenInsertRace ==
    [][\A k \in DOMAIN calls : (CallSteps(k) /\ RowAdded) =>
          \A i \in 1..Len(recommendations) :
              SameWindow(recommendations[i], NewRow) =>
                  /\ calls[k].last_rec # recommendations[i]
                  /\ calls[k].last_rec #
                         GetLastRecommendation(recommendations, calls[k].client,
                                               calls[k].symbol)
                  /\ ~IsCooldownHit(calls[k].last_rec, calls[k].symbol,
                                    NewRow.action, now)
                  /\ IsCooldownHit(GetLastRecommendation(recommendations,
                                       calls[k].client, calls[k].symbol),
                                   calls[k].symbol, NewRow.action, now)]_vars

\* both calls passed the check before either inserted, and both inserted
C17_Witness ==
    /\ Len(recommendations) = 2
    /\ SameWindow(recommendations[1], recommendations[2])
    /\ recommendations[1].action = "buy"
    /\ \A k \in DOMAIN calls : calls[k].pc = "free"


\* the evaluations of task t that have not ended and were not cancelled
\* before they got the semaphore
Unended(t) ==
    (1..Len(tasks[t].raw)) \ (tasks[t].finished \cup tasks[t].dropped)

\* C18: while a discovery task collects, at most 4 evaluations are in
\* progress, whatever the size of the universe; an evaluation that ended was
\* in progress before, and as long as evaluations wait, all 4 places are
\* taken by the first 4 that have not ended
C18_AtMostFourEvaluations ==
    \A t \in TaskIds : At(t, "discover", "collecting") =>
        /\ Cardinality(InFlight(t)) <= 4
        /\ InFlight(t) \subseteq Unended(t)
        /\ \A i \in tasks[t].finished : \A j \in Unended(t) \ InFlight(t) : i < j
        /\ Unended(t) # InFlight(t) => Cardinality(InFlight(t)) = 4
        /\ \A i \in InFlight(t) : \A j \in Unended(t) \ InFlight(t) : i < j

\* four of six evaluations are in progress after one has ended, one waits
C18_Witness ==
    \E t \in TaskIds :
        /\ At(t, "discover", "collecting")
        /\ Len(tasks[t].raw) = 6
        /\ Cardinality(tasks[t].finished) = 1
        /\ Cardinality(InFlight(t)) = 4
        /\ Cardinality(Unended(t) \ InFlight(t)) = 1


----------------------------------------------------------------------------
(* Properties of the status reads *)

\* the fields of a status that the default of a client that never ran shows
IsIdleDefault(status) ==
    /\ status.state = "idle" /\ status.step = "idle" /\ status.progress = 0
    /\ status.error = NoError
    /\ status.started_at = None /\ status.updated_at = None
    /\ status.finished_at = None

\* C19: get_scan_status and get_discovery_status answer for a client that
\* never ran (no entry in the status map) with the default idle status:
\* state idle, step idle, progress 0, no error, no timestamps; and no status
\* read changes the status maps or the maps of the active tasks
C19_StatusReadIsPure ==
    [][\A c \in Clients :
          /\ (last_call'.op = "get_scan_status" /\ last_call'.client = c) =>
                /\ UNCHANGED <<status_by_client, manual_tasks,
                               discover_status_by_client, discover_tasks>>
                /\ last_call'.state = ScanStatusOf(c).state
                /\ c \notin DOMAIN status_by_client =>
                      /\ last_call'.state = "idle"
                      /\ IsIdleDefault(ScanStatusOf(c))
                      /\ c \notin DOMAIN status_by_client'
          /\ (last_call'.op = "get_discovery_status" /\ last_call'.client = c) =>
                /\ UNCHANGED <<status_by_client, manual_tasks,
                               discover_status_by_client, discover_tasks>>
                /\ last_call'.state = DiscoveryStatusOf(c).state
                /\ c \notin DOMAIN discover_status_by_client =>
                      /\ last_call'.state = "idle"
                      /\ IsIdleDefault(DiscoveryStatusOf(c))
                      /\ DiscoveryStatusOf(c).items = <<>>
                      /\ c \notin DOMAIN discover_status_by_client']_vars

\* the scan status of a client that never ran is read after another client
\* has run and while a discovery is under way
C19_Witness ==
    /\ last_call = Response("get_scan_status", "c2", "idle", "")
    /\ "c2" \notin DOMAIN status_by_client
    /\ "c1" \in DOMAIN status_by_client
    /\ \E t \in TaskIds : tasks[t].kind = "discover" /\ tasks[t].pc # "free"


----------------------------------------------------------------------------
(* Properties of the prefilter *)

\* the volume-ratio floor of a risk profile: aggressive 1.3, neutral 1.5,
\* conservative 1.7, any other profile neutral's
ClaimedVolThreshold(risk_profile) ==
    IF risk_profile = "aggressive" THEN 13
    ELSE IF risk_profile = "conservative" THEN 17
    ELSE 15

\* an input with enough bars and turnover whose price is above its 20-bar MA
\* and at or above the 32-bar high, on a volume ratio at or above the floor
BreakoutInput(input) ==
    /\ input.bars_15m >= 64 /\ input.bars_daily >= 60
    /\ input.market.turnover_20d_avg >= min_turnover_20d
    /\ input.market.last_close_15m > input.market.ma20_15m
    /\ input.market.last_close_15m >= input.market.recent_high_32
    /\ input.market.vol_ratio_15m >= ClaimedVolThreshold(input.risk_profile)

\* C20: for every input with at least 64 15-minute bars, at least 60 daily
\* bars, 20-day turnover at or above the floor, price above its 20-bar MA and
\* at or above the 32-bar high, and volume ratio at or above the risk
\* profile's threshold, the prefilter returns triggered = true, action_hint
\* buy and reasons that contain buy_breakout, whatever RSI, drawdown, news
\* and daily trend are
C20_BuyBreakout ==
    (/\ last_call.op = "prefilter_candidate"
     /\ last_call.result # PrefilterPending
     /\ BreakoutInput(last_call.input)) =>
        /\ last_call.result.triggered
        /\ last_call.result.action_hint = "buy"
        /\ \E i \in 1..Len(last_call.result.reasons) :
               last_call.result.reasons[i] = "buy_breakout"

\* a breakout on the aggressive profile's floor, with a drawdown above the
\* floor and negative news: the result carries a sell tag and the hint buy
C20_Witness ==
    /\ last_call.op = "prefilter_candidate"
    /\ BreakoutInput(last_call.input)
    /\ last_call.input.risk_profile = "aggressive"
    /\ last_call.input.market.vol_ratio_15m = 13
    /\ last_call.input.negative_news
    /\ last_call.result.reasons = <<"buy_breakout", "sell_drawdown">>
    /\ last_call.result.action_hint = "buy"


\* the prefilter has returned from the call in last_call
PrefilterReturned ==
    last_call.op = "prefilter_candidate" /\ last_call.result # PrefilterPending

\* C21: the vetoes of the prefilter come before every signal: with fewer
\* than 64 intraday bars or fewer than 60 daily bars the result is not
\* triggered, hint hold, reasons [insufficient_data], score 0; otherwise with
\* the 20-day turnover below the floor it is not triggered, hint hold,
\* reasons [low_turnover], score 0; whatever the other features are
C21_VetoesFirst ==
    PrefilterReturned =>
        LET input == last_call.input
            few_bars == input.bars_15m < 64 \/ input.bars_daily < 60
        IN  /\ few_bars =>
                  last_call.result =
                      [triggered |-> FALSE, action_hint |-> "hold",
                       reasons |-> <<"insufficient_data">>, score |-> 0]
            /\ (~few_bars /\ input.market.turnover_20d_avg < min_turnover_20d) =>
                  last_call.result =
                      [triggered |-> FALSE, action_hint |-> "hold",
                       reasons |-> <<"low_turnover">>, score |-> 0]

\* a breakout with positive news on too little turnover is vetoed
C21_Witness ==
    /\ PrefilterReturned
    /\ BreakoutInput([last_call.input EXCEPT
                         !.market.turnover_20d_avg = min_turnover_20d])
    /\ last_call.input.positive_news
    /\ last_call.input.market.turnover_20d_avg < min_turnover_20d
    /\ last_call.result.reasons = <<"low_turnover">>

\* the weight of a tag: buy 2.0 / 1.2 / 1.0 / 1.0, sell 2.0 / 1.3 / 1.0
ClaimedWeight(tag) ==
    CASE tag = "buy_breakout" -> 20
      [] tag = "buy_reversal" -> 12
      [] tag = "buy_uptrend_pullback" -> 10
      [] tag = "buy_event" -> 10
      [] tag = "sell_breakdown" -> 20
      [] tag = "sell_drawdown" -> 13
      [] tag = "sell_event" -> 10
      [] OTHER -> 0

BuyTags == {"buy_breakout", "buy_reversal", "buy_uptrend_pullback", "buy_event"}
SellTags == {"sell_breakdown", "sell_drawdown", "sell_event"}

RECURSIVE SumWeights(_)
SumWeights(reasons) ==
    IF reasons = <<>> THEN 0
    ELSE ClaimedWeight(Head(reasons)) + SumWeights(Tail(reasons))

\* C22: when no veto applies the result is triggered iff it carries at least
\* one buy_ or sell_ tag; when triggered the hint is buy iff the buy tags are
\* at least as many as the sell tags, else sell, and the score is the sum of
\* the weights of the tags, each tag added once; when not triggered the hint
\* is hold and the score 0
C22_TagsDecide ==
    (/\ PrefilterReturned
     /\ last_call.input.bars_15m >= 64 /\ last_call.input.bars_daily >= 60
     /\ last_call.input.market.turnover_20d_avg >= min_turnover_20d) =>
        LET result == last_call.result
            at(tags) == {i \in 1..Len(result.reasons) : result.reasons[i] \in tags}
            buys == Cardinality(at(BuyTags))
            sells == Cardinality(at(SellTags))
        IN  /\ result.triggered <=> buys + sells > 0
            /\ \A i, j \in at(BuyTags \cup SellTags) :
                   result.reasons[i] = result.reasons[j] => i = j
            /\ result.triggered =>
                  /\ result.action_hint = IF buys >= sells THEN "buy" ELSE "sell"
                  /\ result.score = SumWeights(result.reasons)
            /\ ~result.triggered =>
                  /\ result.action_hint = "hold" /\ result.score = 0

\* two sell tags against one buy tag: hint sell, score 1.0 + 2.0 + 1.3
C22_Witness ==
    /\ PrefilterReturned
    /\ last_call.result.reasons = <<"buy_event", "sell_breakdown", "sell_drawdown">>
    /\ last_call.result.action_hint = "sell"
    /\ last_call.result.score = 43


----------------------------------------------------------------------------
(* Properties of the discovery scorer *)

\* the scorer has returned from the call in last_call
ScorerReturned ==
    last_call.op = "_score_discovery_signal" /\ last_call.result # ScorerPending

\* the additive terms of an input, in tenths: +1.1, +0.9, +0.8, +0.8, +0.6,
\* +0.4 or -0.7 for the turnover, +0.4 or -0.3 for the news bias
ClaimedTerms(input) ==
    <<IF input.above_ma7 THEN 11 ELSE 0, IF input.ma7_over_ma20 THEN 9 ELSE 0,
      IF input.momentum_7d THEN 8 ELSE 0, IF input.near_7d_high THEN 8 ELSE 0,
      IF input.volume_expansion THEN 6 ELSE 0,
      IF input.turnover = "ok" THEN 4
      ELSE IF input.turnover = "low" THEN 0 - 7 ELSE 0,
      IF input.news_bias = "positive" THEN 4
      ELSE IF input.news_bias = "negative" THEN 0 - 3 ELSE 0>>

RECURSIVE SumOf(_)
SumOf(terms) == IF terms = <<>> THEN 0 ELSE Head(terms) + SumOf(Tail(terms))

\* C23: with fewer than 12 daily closes or fewer than 24 intraday volume
\* points the signal is not triggered, score 0, reasons [insufficient_data],
\* hint hold; otherwise the score is the sum of the additive terms (here: up
\* to the rounding of the float additions), the signal is triggered iff this
\* sum is at least 1.8 and the low_liquidity tag is absent, and the hint is
\* buy iff the sum is at least 0, else hold
C23_ScorerRule ==
    ScorerReturned =>
        LET input == last_call.input
            result == last_call.result
            sum == SumOf(ClaimedTerms(input))
            low_liquidity == \E i \in 1..Len(result.reasons) :
                                 result.reasons[i] = "low_liquidity"
        IN  IF input.closes_daily < 12 \/ input.volume_15m < 24
            THEN result = [triggered |-> FALSE, score |-> 0, action_hint |-> "hold",
                           reasons |-> <<"insufficient_data">>]
            ELSE /\ result.score - 8 * sum \in (0 - 3)..3
                 /\ result.triggered <=> (sum >= 18 /\ ~low_liquidity)
                 /\ result.action_hint = IF sum >= 0 THEN "buy" ELSE "hold"


----------------------------------------------------------------------------
(* Properties of the risk profiles *)

\* risk profile strings other than the three the code names
UnknownProfiles == {"balanced", "", "Neutral", "AGGRESSIVE", "none"}

\* the prefilter on the input of a call, with another risk profile
PrefilterAs(input, risk_profile) ==
    PrefilterCandidate(input.market, input.bars_15m, input.bars_daily,
                       input.positive_news, input.negative_news, risk_profile)

\* thresholds and cap of an unknown profile are neutral's, and so is what
\* apply_guardrails makes of every position
UnknownProfileCaps ==
    \A risk_profile \in UnknownProfiles :
        /\ VolThreshold(risk_profile) = VolThreshold("neutral")
        /\ DrawdownThreshold(risk_profile) = DrawdownThreshold("neutral")
        /\ MaxPosition(risk_profile) = MaxPosition("neutral")
        /\ \A out \in PositionOutputs :
               ApplyGuardrails(out, risk_profile) = ApplyGuardrails(out, "neutral")

\* C24: for a risk profile string other than aggressive, neutral and
\* conservative the volume-ratio threshold, the drawdown threshold and the
\* position cap are neutral's, so prefilter_candidate and apply_guardrails
\* give on every input the result they give for neutral
C24_UnknownProfileIsNeutral ==
    /\ UnknownProfileCaps
    /\ PrefilterReturned =>
          /\ last_call.input.risk_profile \in UnknownProfiles =>
                last_call.result = PrefilterAs(last_call.input, "neutral")
          /\ last_call.input.risk_profile = "neutral" =>
                \A risk_profile \in UnknownProfiles :
                    PrefilterAs(last_call.input, risk_profile) = last_call.result

\* an unknown profile on neutral's two thresholds: the volume ratio 1.5 makes
\* a breakout (not for conservative), the drawdown 0.06 a sell tag (not for
\* aggressive)
C24_Witness ==
    /\ PrefilterReturned
    /\ last_call.input.risk_profile = "balanced"
    /\ last_call.input.market.vol_ratio_15m = 15
    /\ last_call.input.market.drawdown_32 = 6
    /\ last_call.result.reasons = <<"buy_breakout", "sell_drawdown">>
    /\ last_call.result # PrefilterAs(last_call.input, "conservative")
    /\ last_call.result # PrefilterAs(last_call.input, "aggressive")


----------------------------------------------------------------------------
(* Properties of the reasoning collaborator *)

\* an output with the fields of LlmOutput set
WellFormed(output) ==
    /\ output.action # ""
    /\ output.target_position_pct \in Int /\ output.confidence \in Int

\* C25: generate never raises into the engine: for every sequence of
\* transport outcomes (network error, 429/5xx status, any other HTTP error
\* status, a body that is not JSON, a response without choices, a
\* schema-invalid object) it does not end by an exception, and what it
\* returns is a well-formed LlmOutput
C25_GenerateNeverRaises ==
    last_call.op = "generate" =>
        /\ last_call.state # "raised"
        /\ last_call.state = "returned" => WellFormed(last_call.output)


----------------------------------------------------------------------------
(* Properties of the finalization *)

FinalizeReturned ==
    last_call.op = "_finalize_recommendation" /\ last_call.result # FinalizePending

ValidActions == {"buy", "sell", "hold"}

\* C26: after finalization the action is one of buy, sell, hold: a
\* collaborator action outside that set is replaced by the scorer's action
\* hint, a valid action is kept; so the stored recommendation and the
\* discovery item made of it have their action in {buy, sell, hold}
C26_ActionIsValid ==
    FinalizeReturned =>
        LET input == last_call.input
            result == last_call.result
        IN  /\ result.recommendation.action \in ValidActions
            /\ result.recommendation.action =
                  IF input.output.action \in ValidActions
                  THEN input.output.action ELSE input.action_hint
            /\ \A i \in 1..Len(result.rows) : result.rows[i].action \in ValidActions
            /\ \A i \in 1..Len(result.items) : result.items[i].action \in ValidActions

\* a collaborator action outside the set was replaced by a different hint
\* and the row and the item were made
C26_Witness ==
    /\ FinalizeReturned
    /\ last_call.input.output.action = "wait"
    /\ last_call.input.action_hint = "sell"
    /\ last_call.result.rows # <<>> /\ last_call.result.items # <<>>
    /\ last_call.result.rows[1].action = "sell"


\* C27: for every collaborator output the finalized evidence holds at least
\* min(4, available market features) market-feature citations and at least
\* min(4, available news items) news citations, and the finalized risk
\* holds at least one invalidate condition
C27_FinalizedEvidenceAndRisk ==
    FinalizeReturned =>
        LET input == last_call.input
            result == last_call.result
        IN  /\ result.recommendation.market_features >= Min(4, input.market_features)
            /\ result.recommendation.news_citations >= Min(4, input.news_items)
            /\ result.invalidate_conditions >= 1


----------------------------------------------------------------------------
(* Properties of the push to the client *)

\* the call k leaves send_event without the event having been taken
SendFailed(k) ==
    calls[k].pc = "sending" /\ calls'[k].pc # "sending" /\ events' = events

----------------------------------------------------------------------------
(* Properties of the two buckets of discovery *)

HasTag(candidate, tag) ==
    \E i \in 1..Len(candidate.reasons) : candidate.reasons[i] = tag

\* C29: every candidate in the backup bucket has a score of at least 1.0
\* and below the trigger threshold 1.8, every candidate in the accepted
\* bucket was triggered (score at least 1.8, no low_liquidity tag), and no
\* candidate is in both buckets
C29_BucketsByScore ==
    \A t \in TaskIds :
        /\ \A i \in 1..Len(tasks[t].backup) :
              /\ tasks[t].backup[i].score >= BackupScore
              /\ tasks[t].backup[i].score < TriggerScore
        /\ \A i \in 1..Len(tasks[t].scored) :
              /\ tasks[t].scored[i].score >= TriggerScore
              /\ ~HasTag(tasks[t].scored[i], "low_liquidity")
        /\ \A i \in 1..Len(tasks[t].scored), j \in 1..Len(tasks[t].backup) :
              tasks[t].scored[i].symbol # tasks[t].backup[j].symbol


----------------------------------------------------------------------------
(* Properties of the websocket endpoint *)

\* the handler has taken a frame in this step
WsReceived ==
    /\ last_call.op = "websocket_endpoint"
    /\ last_call'.op = "websocket_endpoint"
    /\ last_call'.received = last_call.received + 1

\* a JSON value that is no envelope: no object, no string under type, or
\* a payload that is no object
FailsEnvelope(message) ==
    \/ message.frame = "array"
    \/ /\ message.frame = "object"
       /\ \/ message.type \in {"<absent>", "<not_str>"}
          \/ message.payload.kind = "not_dict"

\* the handler answered exactly `reply`, stays open, and left the registry,
\* the watchlist and the preferences as they were
AnsweredOnly(reply) ==
    /\ last_call'.sent = Append(last_call.sent, reply)
    /\ last_call'.state = "open"
    /\ connections' = connections
    /\ watchlist' = watchlist /\ preferences' = preferences

\* C30: an envelope of type ping is valid without a payload (the payload
\* is then {}) and is answered with exactly one pong; a message that fails
\* the validation of the envelope is answered with server.error /
\* invalid_envelope and the connection stays open; neither changes the
\* connection registry, the watchlist or the preferences
C30_PingAndInvalidEnvelope ==
    [][WsReceived =>
          LET message == last_call'.message
          IN  /\ (message.frame = "object" /\ message.type = "ping"
                     /\ message.payload.kind # "not_dict") =>
                    /\ WsEnvelopeValidate(message).valid
                    /\ message.payload.kind = "absent" =>
                          WsEnvelopeValidate(message).payload = EmptyDict
                    /\ AnsweredOnly(WsReply("pong", ""))
              /\ FailsEnvelope(message) =>
                    AnsweredOnly(WsReply("server.error", "invalid_envelope"))]_vars

\* a registered socket answered a frame that is no envelope and then a
\* ping without payload, and is still open and registered
C30_Witness ==
    /\ last_call.op = "websocket_endpoint" /\ last_call.state = "open"
    /\ last_call.client_id = "c1" /\ "c1" \in connections
    /\ last_call.received = 3
    /\ last_call.message.type = "ping" /\ last_call.message.payload.kind = "absent"
    /\ last_call.sent = <<WsReply("server.hello.ack", "ok"),
                          WsReply("server.error", "invalid_envelope"),
                          WsReply("pong", "")>>


----------------------------------------------------------------------------
(* Properties of the news provider *)

NewsReturned == last_call.op = "get_recent_news" /\ last_call.state = "returned"

\* C31: get_recent_news returns only items whose title or snippet mentions
\* the symbol or the name and whose publication time is not older than
\* now - hours, and no two returned items share (source, title); a fetch
\* that raises adds nothing and does not fail the call
C31_RecentRelevantDistinct ==
    [][last_call.op = "get_recent_news" =>
          /\ last_call'.state = "returned" =>
                LET result == last_call'.result
                IN  /\ \A i \in 1..Len(result) :
                          /\ \/ result[i].mentions = "symbol"
                             \/ result[i].mentions = "name"
                                   /\ last_call.name_kind # "empty"
                          /\ result[i].age <= last_call.hours
                    /\ \A i, j \in 1..Len(result) :
                          (result[i].source = result[j].source
                              /\ result[i].title = result[j].title) => i = j
          /\ last_call'.fetch = "raised" =>
                /\ last_call'.articles = last_call.articles
                /\ last_call'.state \in {"fetching", "returned"}]_vars


\* the call returned two articles of one title from two sources, of the
\* three it had collected, and its last fetch raised
C31_Witness ==
    /\ NewsReturned
    /\ last_call.fetch = "raised"
    /\ Len(last_call.articles) = 3 /\ Len(last_call.result) = 2
    /\ last_call.result[1].title = last_call.result[2].title
    /\ last_call.result[1].source # last_call.result[2].source


----------------------------------------------------------------------------
(* Properties of the progress of a job *)

\* the watchlists and candidate lists the scan's progress is computed for
MaxWatchlist == 8

ScanProgressInRange ==
    \A total \in 1..MaxWatchlist :
        /\ \A idx \in 1..total :
              /\ ScanCollectProgress(idx, total) \in 10..55
              /\ idx > 1 => ScanCollectProgress(idx - 1, total)
                                <= ScanCollectProgress(idx, total)
        /\ \A processed \in 1..total :
              /\ ScanReasonProgress(processed, total) \in 60..95
              /\ ScanReasonProgress(processed - 1, total)
                    <= ScanReasonProgress(processed, total)

\* the status a job type shows for a client before the step, followed by
\* the statuses the step writes for them
Written(kind, c) ==
    LET new == StoresOf(stored', kind, c)
    IN  <<StatusOfJob(kind, c)>> \o [i \in 1..Len(new) |-> new[i].status]

\* C32: the progress values a job writes never decrease and are 100 only
\* in the terminal update; a scan writes values in [10,55] while it
\* collects candidates and in [60,95] while it reasons, a discovery values
\* in [20,70] while it collects and in [72,96] while it reasons
C32_ProgressGrows ==
    [][/\ ScanProgressInRange
       /\ \A kind \in {"scan", "discover"}, c \in Clients :
            \A i \in 2..Len(Written(kind, c)) :
               LET before == Written(kind, c)[i - 1]
                   status == Written(kind, c)[i]
               IN  /\ before.state = "running" => before.progress <= status.progress
                   /\ status.progress = 100 =>
                         status.state \in {"succeeded", "failed"}
                   /\ status.step = "collecting_candidates" =>
                         status.progress \in
                             IF kind = "scan" THEN 10..55 ELSE 20..70
                   /\ status.step = "llm_reasoning" =>
                         status.progress \in
                             IF kind = "scan" THEN 60..95 ELSE 72..96]_vars

\* a discovery that wrote 96 while reasoning wrote 100 with its last update
C32_Witness ==
    \E c \in Clients :
        /\ DiscoveryStatusOf(c).state = "succeeded"
        /\ \E i, j \in 1..Len(stored) :
              /\ i < j
              /\ stored[i].job = "discover" /\ stored[i].client = c
              /\ stored[i].status.step = "llm_reasoning"
              /\ stored[i].status.progress = 96
              /\ stored[j].status.progress = 100


----------------------------------------------------------------------------
(* The discovery pass under the limits 1 and 2, every symbol triggered or  *)
(* the weaker backup; the evaluations end in the order of the universe,   *)
(* which covers every order of completion up to the names of the symbols  *)

\* limit arguments that make the limits 1 and 2
LimitLimits == {0, 2}
LimitSignals == {f \in ShortlistSignals : f.ma7_over_ma20 \/ f.volume_expansion}

NextLimit ==
    \/ \E c \in DiscoveryClients, limit \in LimitLimits, ul \in UniverseLimitInputs :
          TriggerDiscovery(c, limit, ul)
    \/ \E t \in TaskIds : DiscStart(t)
    \/ \E t \in TaskIds : DiscUniverse(t, ShortlistUniverse)
    \/ \E t \in TaskIds, f \in LimitSignals :
          DiscEvaluate(t, Cardinality(tasks[t].finished) + 1, FALSE, f)
    \/ \E t \in TaskIds : DiscGatherDone(t)
    \/ \E t \in TaskIds, failed \in BOOLEAN, out \in EngineLlmOutputs :
          DiscReason(t, failed, out)

SpecLimit == Init /\ [][NextLimit]_vars

----------------------------------------------------------------------------
(* Properties of the shortlist of discovery *)

Symbols(cands) == {cands[i].symbol : i \in 1..Len(cands)}

NonIncreasing(cands) ==
    \A i \in 1..(Len(cands) - 1) : cands[i].score >= cands[i + 1].score

\* the fan-out of the discovery task t is over in this step
GatherDone(t) ==
    At(t, "discover", "collecting") /\ tasks'[t].pc # "collecting"

\* the items the status of the client of t shows after the step that ends t
ReturnedBy(t) ==
    IF tasks'[t].pc = "free" /\ tasks[t].client \in DOMAIN discover_status_by_client'
    THEN discover_status_by_client'[tasks[t].client].items ELSE <<>>

\* C33: backup candidates reach the shortlist exactly when no symbol
\* triggered and a backup exists; when a symbol triggered no backup
\* candidate is shortlisted or returned; promoted backups are the best of
\* the bucket in non-increasing score order, at most max(2 x limit, limit)
C33_BackupsOnlyWhenNothingTriggered ==
    [][\A t \in TaskIds :
          LET scored == tasks[t].scored
              backup == tasks[t].backup
              cap == Max(2 * tasks[t].limit, tasks[t].limit)
              shortlist == tasks'[t].shortlist
              promoted == Symbols(shortlist) \cap Symbols(backup) # {}
          IN  /\ GatherDone(t) =>
                    /\ promoted <=> (scored = <<>> /\ backup # <<>>)
                    /\ scored # <<>> => Symbols(shortlist) \cap Symbols(backup) = {}
                    /\ promoted =>
                          /\ Symbols(shortlist) \subseteq Symbols(backup)
                          /\ Len(shortlist) = Min(cap, Len(backup))
                          /\ NonIncreasing(shortlist)
                          /\ \A i \in 1..Len(shortlist), j \in 1..Len(backup) :
                                backup[j].symbol \notin Symbols(shortlist) =>
                                    shortlist[i].score >= backup[j].score
              /\ At(t, "discover", "reasoning") =>
                    /\ Symbols(ReturnedBy(t)) \subseteq Symbols(tasks[t].shortlist)
                    /\ scored # <<>> =>
                          Symbols(ReturnedBy(t)) \cap Symbols(backup) = {}]_vars

\* of three backup candidates the two with the higher scores were promoted
C33_Witness ==
    \E t \in TaskIds :
        /\ At(t, "discover", "reasoning")
        /\ tasks[t].scored = <<>> /\ Len(tasks[t].backup) = 3
        /\ Len(tasks[t].shortlist) = 2
        /\ tasks[t].shortlist[1].score > tasks[t].shortlist[2].score
        /\ \E j \in 1..3 : /\ tasks[t].backup[j].symbol \notin Symbols(tasks[t].shortlist)
                           /\ tasks[t].backup[j].score < tasks[t].shortlist[1].score


\* the bucket the shortlist of t is taken from
SourceBucket(t) ==
    IF tasks[t].scored # <<>> THEN tasks[t].scored ELSE tasks[t].backup

\* C34: discover_stocks returns at most limit items; they come from a
\* shortlist of at most max(2 x limit, limit) candidates, the ones with the
\* highest scores of their bucket, and appear in non-increasing score
\* order; once limit items are accepted the reasoning collaborator is not
\* called for a further shortlisted candidate
C34_AtMostLimitItems ==
    [][\A t \in TaskIds :
          LET limit == tasks[t].limit
              cap == Max(2 * limit, limit)
              shortlist == tasks'[t].shortlist
          IN  /\ GatherDone(t) =>
                    /\ Len(shortlist) = Min(cap, Len(SourceBucket(t)))
                    /\ Symbols(shortlist) \subseteq Symbols(SourceBucket(t))
                    /\ NonIncreasing(shortlist)
                    /\ \A i \in 1..Len(shortlist), j \in 1..Len(SourceBucket(t)) :
                          SourceBucket(t)[j].symbol \notin Symbols(shortlist) =>
                              shortlist[i].score >= SourceBucket(t)[j].score
              /\ At(t, "discover", "reasoning") /\ tasks'[t] # tasks[t] =>
                    /\ Len(tasks[t].output) < limit
                    /\ tasks'[t].pc = "reasoning" =>
                          /\ Len(tasks'[t].output) < limit
                          /\ tasks'[t].idx = tasks[t].idx + 1
                    /\ tasks'[t].pc = "free" =>
                          /\ Len(ReturnedBy(t)) <= limit
                          /\ NonIncreasing(ReturnedBy(t))
                          /\ Symbols(ReturnedBy(t)) \subseteq Symbols(tasks[t].shortlist)
                          /\ \/ Len(ReturnedBy(t)) = limit
                             \/ tasks[t].idx = Len(tasks[t].shortlist)]_vars

\* with limit 2 and three shortlisted candidates the discovery returned
\* two items after two reasoning calls
C34_Witness ==
    /\ last_call = NoCall
    /\ \E c \in DiscoveryClients :
          /\ DiscoveryStatusOf(c).state = "succeeded"
          /\ DiscoveryStatusOf(c).limit = 2
          /\ DiscoveryStatusOf(c).total_candidates = 3
          /\ Len(DiscoveryStatusOf(c).items) = 2
          /\ DiscoveryStatusOf(c).items[1].score > DiscoveryStatusOf(c).items[2].score
          /\ \A i \in 1..Len(stored) : stored[i].status.message
                                          # "Running AI reasoning (3/3)."
          /\ \E i \in 1..Len(stored) : stored[i].status.message
                                          = "Running AI reasoning (2/3)."


----------------------------------------------------------------------------
(* Properties of the requests of the reasoning collaborator *)

\* the outcomes after which _call_llm may post again
RetriedOutcomes == {"network_error", "retry_status"}

\* the posts of a call that ended with another outcome
Conclusive(call) ==
    {i \in 1..Len(call.outcomes) : call.outcomes[i] \notin RetriedOutcomes}

\* C35: one generate call makes at most two invocations of at most three
\* posts each, posting again only after a transport error or a status 429,
\* 500, 502, 503, 504, so at most six posts; when both responses fail JSON
\* or schema validation it returns the fallback (hold, position 0,
\* confidence 0.1); without an API key it posts nothing and returns that
\* fallback
C35_AtMostSixRequests ==
    last_call.op = "generate" =>
        /\ last_call.attempt \in 1..2 /\ last_call.tries \in 1..3
        /\ Len(last_call.outcomes) <= 6
        /\ Len(last_call.outcomes) <= 3 * last_call.attempt
        /\ last_call.state = "posting" =>
              /\ Len(last_call.outcomes)
                     <= 3 * (last_call.attempt - 1) + last_call.tries - 1
              /\ Cardinality(Conclusive(last_call)) <= last_call.attempt - 1
        /\ Cardinality(Conclusive(last_call)) <= 2
        /\ \A i \in Conclusive(last_call) :
              i < Len(last_call.outcomes) =>
                  /\ CallLlmPost(last_call.outcomes[i])
                         \in {"text_schema_invalid", "text_not_json"}
                  /\ \A j \in Conclusive(last_call) : j >= i
        /\ (last_call.state = "returned"
                /\ \A i \in 1..Len(last_call.outcomes) :
                      last_call.outcomes[i] # "valid") =>
              /\ last_call.output
                     = FallbackOutput(MarketFeatureCount, LlmContextNews)
              /\ last_call.output.action = "hold"
              /\ last_call.output.target_position_pct = 0
              /\ last_call.output.confidence = 10
        /\ ~last_call.api_key =>
              /\ last_call.outcomes = <<>>
              /\ last_call.state \in {"posting", "returned"}

\* six posts, each answered with a retried status or a transport error,
\* then the fallback
C35_Witness ==
    /\ last_call.op = "generate" /\ last_call.api_key
    /\ last_call.state = "returned"
    /\ Len(last_call.outcomes) = 6
    /\ last_call.outcomes[1] = "network_error"
    /\ last_call.outcomes[6] = "retry_status"
    /\ last_call.output = FallbackOutput(MarketFeatureCount, LlmContextNews)


----------------------------------------------------------------------------
(* Properties of the cooldown gate *)

\* the step is a _run_candidate whose candidate the cooldown check rejected
RejectedByCooldown(c) ==
    /\ now' = now
    /\ last_call'.op = "_run_candidate" /\ last_call'.client = c

\* C36: a scan candidate rejected by the cooldown check causes no call of
\* the reasoning collaborator, no recommendation row and no websocket
\* event, and the scan status counts it as processed and not as created
C36_CooldownShortCircuits ==
    [][\A c \in PipelineClients :
          RejectedByCooldown(c) =>
              /\ calls' = calls
              /\ recommendations' = recommendations
              /\ events' = events
              /\ last_call'.state = "returned"
              /\ c \in DOMAIN status_by_client'
              /\ status_by_client'[c].processed_candidates = 1
              /\ status_by_client'[c].created_recommendations = 0]_vars

\* what the code does keep of C36: the rejected candidate starts no
\* reasoning call, creates no row and sends no event
GateShortCircuits ==
    [][\A c \in PipelineClients :
          RejectedByCooldown(c) =>
              /\ calls' = calls
              /\ recommendations' = recommendations
              /\ events' = events]_vars

\* a candidate was rejected by the cooldown check inside _run_candidate
GateReached == last_call.op = "_run_candidate"


----------------------------------------------------------------------------
(* Properties of the items of the discovery status *)

\* C37: the items of a client's discovery status are non-empty only when
\* its state is succeeded: while a later discovery job of the client runs,
\* or after it failed, the status does not show the items of an earlier job
C37_ItemsOnlyWhenSucceeded ==
    \A c \in DOMAIN discover_status_by_client :
        discover_status_by_client[c].items # <<>>
            => discover_status_by_client[c].state = "succeeded"

\* what the code does keep of C37: a failed status shows no items
FailedShowsNoItems ==
    \A c \in DOMAIN discover_status_by_client :
        discover_status_by_client[c].state = "failed"
            => discover_status_by_client[c].items = <<>>


----------------------------------------------------------------------------
(* Properties of started_at *)

TerminalStates == {"succeeded", "failed"}

\* the started_at shown for c after the step is not earlier than the
\* finished_at shown before it
NotBeforeFinished(c) ==
    discover_status_by_client'[c].started_at
        >= discover_status_by_client[c].finished_at

\* the later half of C38 alone
StartedAfterEarlierJob ==
    [][\A c \in DOMAIN discover_status_by_client :
          (/\ discover_status_by_client[c].state \in TerminalStates
           /\ discover_status_by_client'[c].state = "running") =>
              NotBeforeFinished(c)]_vars

\* C38: started_at of a client's status is the time of the first update of
\* the current job: when a new job starts after an earlier job of that
\* type reached a terminal state, the started_at shown while the new job
\* runs is not earlier than the finished_at of the earlier job
C38_StartedAtOfCurrentJob ==
    [][\A c \in DOMAIN discover_status_by_client :
          (/\ discover_status_by_client[c].state \in TerminalStates
           /\ discover_status_by_client'[c].state = "running") =>
              /\ discover_status_by_client'[c].started_at = now
              /\ NotBeforeFinished(c)]_vars

\* what the code does keep of C38: the first job of a client shows the
\* time of its first update
FirstJobStartedAt ==
    [][\A c \in DiscoveryClients :
          (/\ c \notin DOMAIN discover_status_by_client
           /\ c \in DOMAIN discover_status_by_client') =>
              discover_status_by_client'[c].started_at = now]_vars


----------------------------------------------------------------------------
(* Properties of what discovery and scans leave alone *)

\* the step is one of a discovery pass: of a discovery task that has
\* started, or a direct call of discover_stocks
DiscoveryStep ==
    \/ \E t \in TaskIds : /\ tasks[t].kind = "discover"
                          /\ tasks[t].pc # "pending"
                          /\ tasks'[t] # tasks[t]
    \/ last_call'.op = "discover_stocks"
    \/ \E c \in DOMAIN discover_status_by_client' :
          \/ c \notin DOMAIN discover_status_by_client
          \/ discover_status_by_client'[c] # discover_status_by_client[c]

\* the step is one of a scan: of a manual scan task or of the scheduler's job
ScanStep ==
    \/ \E t \in TaskIds : tasks[t].kind = "scan" /\ tasks'[t] # tasks[t]
    \/ last_call'.op = "scan_job"
    \/ status_by_client' # status_by_client

\* C39: a discovery pass never creates a recommendation row, never sends a
\* websocket event and never changes the client's scan status; a scan
\* never changes the client's discovery status
C39_DiscoveryAndScanFrames ==
    [][/\ DiscoveryStep => /\ recommendations' = recommendations
                           /\ events' = events
                           /\ status_by_client' = status_by_client
       /\ ScanStep => discover_status_by_client' = discover_status_by_client]_vars

\* a discovery that returned an item and a scan of the same client have
\* both ended, and discover_stocks was called directly: no row, no event
C39_Witness ==
    /\ last_call.op = "discover_stocks"
    /\ \E c \in DiscoveryClients :
          /\ c \in DOMAIN status_by_client
          /\ status_by_client[c].state = "failed"
          /\ DiscoveryStatusOf(c).state = "succeeded"
          /\ DiscoveryStatusOf(c).items # <<>>
    /\ recommendations = <<>> /\ events = <<>>


----------------------------------------------------------------------------
(* Properties of the connection registry after the handler ended *)

WsEnded == last_call.op = "websocket_endpoint" /\ last_call.state = "closed"

\* C40: after the handler of a websocket connection has ended (disconnect
\* or error) its socket is registered under no client id, whatever
\* client.hello messages the connection sent, several client ids included;
\* so is_online(c) is not true for a client whose sockets all disconnected
C40_EndedSocketIsUnregistered ==
    WsEnded =>
        /\ last_call.registered = {}
        /\ \A c \in Clients : c \notin last_call.others => c \notin connections

\* what the code does keep of C40: the id of the last hello is given up
LastHelloUnregistered ==
    WsEnded => last_call.client_id \notin last_call.registered

\* a connection that said hello under one id at most ended
OneIdentityEnded ==
    WsEnded /\ last_call.received = MaxFrames /\ last_call.client_id # ""
        /\ last_call.registered = {}

====
